---------------------------- MODULE Spec2Model ----------------------------
(***************************************************************************)
(* Positional DataList decoding of pyoekoboxonline                         *)
(* (src/src/pyoekoboxonline/models.py): the per-record decoder             *)
(* DataListModel.from_data_list_entry, the tag registry MODEL_REGISTRY     *)
(* and the batch dispatcher parse_data_list_response.                      *)
(*                                                                         *)
(* Python values are records [k, n, q, s, t, items]:                       *)
(*   k = "null" | "bool" | "int" | "float" | "inf" | "str" | "datetime"    *)
(*       | "list" | "dict"                                                 *)
(*   n     the integer (int), 0/1 (bool), the mantissa (float), the number *)
(*         of keys (dict)                                                  *)
(*   q     the number of decimal places of a float: value = n / 10^q       *)
(*   s     the characters of a str, one one-character string each          *)
(*   t     <<year, month, day, hour, minute, second, aware, offset>> of a  *)
(*         datetime: aware = 1 with the UTC offset in minutes, or 0        *)
(*   items the elements of a list, the keys of a dict                      *)
(***************************************************************************)
EXTENDS Integers, Sequences, FiniteSets, TLC

(***************************************************************************)
(* Bounds of the model.                                                    *)
(***************************************************************************)
\* longest raw positional array drawn as input of from_data_list_entry
MaxLen == 3
\* most raw entries in the "data" list of one envelope entry
MaxBatch == 3
\* most "tag": class entries of a registry dict
MaxRegistrations == 3
\* most HTTP requests that a client sends
MaxRequests == 2

(***************************************************************************)
(* Python values.                                                          *)
(***************************************************************************)
PyVal(k, n, q, s, t, items) ==
    [k |-> k, n |-> n, q |-> q, s |-> s, t |-> t, items |-> items]

None == PyVal("null", 0, 0, <<>>, <<>>, <<>>)
PyBool(b) == PyVal("bool", IF b THEN 1 ELSE 0, 0, <<>>, <<>>, <<>>)
PyInt(n) == PyVal("int", n, 0, <<>>, <<>>, <<>>)
PyInf == PyVal("inf", 1, 0, <<>>, <<>>, <<>>)
PyStr(s) == PyVal("str", 0, 0, s, <<>>, <<>>)
PyDateTime(t) == PyVal("datetime", 0, 0, <<>>, t, <<>>)
PyList(items) == PyVal("list", 0, 0, <<>>, <<>>, items)
\* a JSON object: its keys, in order, as items (n = how many)
PyDict(keys) == PyVal("dict", Len(keys), 0, <<>>, <<>>, keys)

RECURSIVE Pow10(_)
Pow10(q) == IF q = 0 THEN 1 ELSE 10 * Pow10(q - 1)

\* a float n / 10^q in lowest decimal form, so that equal floats are equal records
RECURSIVE PyFloat(_, _)
PyFloat(n, q) ==
    IF q > 0 /\ n % 10 = 0
    THEN PyFloat(n \div 10, q - 1)
    ELSE PyVal("float", n, q, <<>>, <<>>, <<>>)

(***************************************************************************)
(* Characters and the conversions between numbers and their texts.         *)
(***************************************************************************)
Digits == <<"0", "1", "2", "3", "4", "5", "6", "7", "8", "9">>

IsDigit(c) == \E i \in 1..10 : Digits[i] = c

DigitVal(c) == (CHOOSE i \in 1..10 : Digits[i] = c) - 1

AllDigits(s) == \A i \in 1..Len(s) : IsDigit(s[i])

RECURSIVE DigitsToNat(_)
DigitsToNat(s) ==
    IF s = <<>> THEN 0
    ELSE 10 * DigitsToNat(SubSeq(s, 1, Len(s) - 1)) + DigitVal(s[Len(s)])

RECURSIVE NatToDigits(_)
NatToDigits(n) ==
    IF n < 10 THEN <<Digits[n + 1]>>
    ELSE NatToDigits(n \div 10) \o <<Digits[(n % 10) + 1]>>

\* n as exactly w digits, zero-padded on the left
RECURSIVE PadDigits(_, _)
PadDigits(n, w) ==
    IF w = 0 THEN <<>>
    ELSE PadDigits(n \div 10, w - 1) \o <<Digits[(n % 10) + 1]>>

Abs(n) == IF n < 0 THEN -n ELSE n

\* str.strip(): leading and trailing blanks removed
RECURSIVE Strip(_)
Strip(s) ==
    IF s = <<>> THEN s
    ELSE IF Head(s) = " " THEN Strip(Tail(s))
    ELSE IF s[Len(s)] = " " THEN Strip(SubSeq(s, 1, Len(s) - 1))
    ELSE s

\* position of the first "." of s, 0 when it has none
FirstDot(s) ==
    IF \E i \in 1..Len(s) : s[i] = "."
    THEN CHOOSE i \in 1..Len(s) : s[i] = "." /\ \A j \in 1..(i - 1) : s[j] # "."
    ELSE 0

HasSign(s) == s # <<>> /\ Head(s) \in {"+", "-"}

Unsigned(s) == IF HasSign(s) THEN Tail(s) ELSE s

Signed(s, n) == IF HasSign(s) /\ Head(s) = "-" THEN -n ELSE n

(***************************************************************************)
(* The outcome of a conversion: a value, or the exception it raises.       *)
(***************************************************************************)
Ok(v) == [exc |-> "", val |-> v]

Raise(e) == [exc |-> e, val |-> None]

(***************************************************************************)
(* int(value), models.py line 75.  A text is stripped and must be an       *)
(* optional sign and decimal digits; a float is truncated toward zero;     *)
(* an infinite float raises OverflowError.                                 *)
(***************************************************************************)
py_int(v) ==
    CASE v.k = "int" -> Ok(v)
      [] v.k = "bool" -> Ok(PyInt(v.n))
      [] v.k = "float" ->
            Ok(PyInt(IF v.n < 0 THEN -((-v.n) \div Pow10(v.q))
                     ELSE v.n \div Pow10(v.q)))
      [] v.k = "inf" -> Raise("OverflowError")
      [] v.k = "str" ->
            LET b == Strip(v.s)
                d == Unsigned(b)
            IN  IF d # <<>> /\ AllDigits(d)
                THEN Ok(PyInt(Signed(b, DigitsToNat(d))))
                ELSE Raise("ValueError")
      [] OTHER -> Raise("TypeError")

(***************************************************************************)
(* float(value), models.py line 89.  A text is stripped and must be an     *)
(* optional sign and digits with at most one decimal point (the exponent   *)
(* forms and the texts inf and nan, which float() takes too, are not among *)
(* the inputs drawn).                                                      *)
(***************************************************************************)
py_float(v) ==
    CASE v.k = "float" -> Ok(v)
      [] v.k = "inf" -> Ok(v)
      [] v.k = "int" -> Ok(PyFloat(v.n, 0))
      [] v.k = "bool" -> Ok(PyFloat(v.n, 0))
      [] v.k = "str" ->
            LET b == Strip(v.s)
                d == Unsigned(b)
                dot == FirstDot(d)
                ip == IF dot = 0 THEN d ELSE SubSeq(d, 1, dot - 1)
                fp == IF dot = 0 THEN <<>> ELSE SubSeq(d, dot + 1, Len(d))
            IN  IF AllDigits(ip) /\ AllDigits(fp) /\ Len(ip) + Len(fp) > 0
                THEN Ok(PyFloat(Signed(b, DigitsToNat(ip \o fp)), Len(fp)))
                ELSE Raise("ValueError")
      [] OTHER -> Raise("TypeError")

(***************************************************************************)
(* bool(value), models.py line 91: Python truthiness.                      *)
(***************************************************************************)
\* a variant that takes the text "0" for false
py_bool_TextZeroFalse(v) ==
    CASE v.k = "null" -> FALSE
      [] v.k \in {"bool", "int", "float", "dict"} -> v.n # 0
      [] v.k = "str" -> v.s # <<>> /\ v.s # <<"0">>
      [] v.k = "list" -> v.items # <<>>
      [] OTHER -> TRUE

py_bool(v) ==
    CASE v.k = "null" -> FALSE
      [] v.k \in {"bool", "int", "float", "dict"} -> v.n # 0
      [] v.k = "str" -> v.s # <<>>
      [] v.k = "list" -> v.items # <<>>
      [] OTHER -> TRUE

(***************************************************************************)
(* str(value), models.py line 93.                                          *)
(***************************************************************************)
IntText(n) == (IF n < 0 THEN <<"-">> ELSE <<>>) \o NatToDigits(Abs(n))

FloatText(n, q) ==
    (IF n < 0 THEN <<"-">> ELSE <<>>)
        \o NatToDigits(Abs(n) \div Pow10(q))
        \o <<".">>
        \o (IF q = 0 THEN <<"0">> ELSE PadDigits(Abs(n) % Pow10(q), q))

RECURSIVE py_repr(_)
RECURSIVE JoinRepr(_)
JoinRepr(items) ==
    IF items = <<>> THEN <<>>
    ELSE IF Len(items) = 1 THEN py_repr(items[1])
    ELSE py_repr(items[1]) \o <<",", " ">> \o JoinRepr(Tail(items))

py_repr(v) ==
    CASE v.k = "null" -> <<"N", "o", "n", "e">>
      [] v.k = "bool" ->
            IF v.n = 1 THEN <<"T", "r", "u", "e">>
            ELSE <<"F", "a", "l", "s", "e">>
      [] v.k = "int" -> IntText(v.n)
      [] v.k = "float" -> FloatText(v.n, v.q)
      [] v.k = "inf" -> (IF v.n < 0 THEN <<"-">> ELSE <<>>) \o <<"i", "n", "f">>
      [] v.k = "str" -> <<"'">> \o v.s \o <<"'">>
      [] v.k = "list" -> <<"[">> \o JoinRepr(v.items) \o <<"]">>
      [] OTHER -> <<"{", "}">>

py_str(v) == IF v.k = "str" THEN v.s ELSE py_repr(v)

(***************************************************************************)
(* Calendar texts.                                                         *)
(***************************************************************************)
IsLeap(y) == (y % 4 = 0 /\ y % 100 # 0) \/ y % 400 = 0

DaysInMonth(y, m) ==
    IF m = 2 THEN (IF IsLeap(y) THEN 29 ELSE 28)
    ELSE IF m \in {4, 6, 9, 11} THEN 30 ELSE 31

ValidDate(y, m, d) ==
    y >= 1 /\ m \in 1..12 /\ d >= 1 /\ d <= DaysInMonth(y, m)

\* s is exactly w digits
IsNum(s, w) == Len(s) = w /\ AllDigits(s)

(***************************************************************************)
(* datetime.datetime.strptime(value, "%Y-%m-%d"), models.py line 84:       *)
(* four year digits, one or two month digits, one or two day digits (or a  *)
(* blank and one), nothing else; the result is a naive datetime at         *)
(* midnight.                                                               *)
(***************************************************************************)
py_strptime(v) ==
    IF v.k # "str" THEN Raise("TypeError")
    ELSE
    LET s == v.s
        rest == IF Len(s) > 5 THEN SubSeq(s, 6, Len(s)) ELSE <<>>
        cut == IF \E i \in 1..Len(rest) : rest[i] = "-"
               THEN CHOOSE i \in 1..Len(rest) :
                        rest[i] = "-" /\ \A j \in 1..(i - 1) : rest[j] # "-"
               ELSE 0
        mt == IF cut = 0 THEN <<>> ELSE SubSeq(rest, 1, cut - 1)
        dt0 == IF cut = 0 THEN <<>> ELSE SubSeq(rest, cut + 1, Len(rest))
        dt == IF Len(dt0) = 2 /\ dt0[1] = " " THEN Tail(dt0) ELSE dt0
        shape == /\ Len(s) > 5 /\ IsNum(SubSeq(s, 1, 4), 4) /\ s[5] = "-"
                 /\ Len(mt) \in 1..2 /\ AllDigits(mt)
                 /\ Len(dt) \in 1..2 /\ AllDigits(dt)
        y == DigitsToNat(SubSeq(s, 1, 4))
        m == DigitsToNat(mt)
        d == DigitsToNat(dt)
    IN  IF shape /\ ValidDate(y, m, d)
        THEN Ok(PyDateTime(<<y, m, d, 0, 0, 0, 0, 0>>))
        ELSE Raise("ValueError")

(***************************************************************************)
(* datetime.datetime.fromisoformat(value), models.py line 78.  Accepted    *)
(* here: YYYY-MM-DD, then optionally one separator character and HH, HH:MM *)
(* or HH:MM:SS, then optionally an offset +HH:MM or -HH:MM, or Z.  The     *)
(* trailing Z is accepted by Python 3.11 and later only (acceptsZ).        *)
(***************************************************************************)
IsoTime(r) ==
    LET n == Len(r)
        shape == /\ n \in {2, 5, 8}
                 /\ IsNum(SubSeq(r, 1, 2), 2)
                 /\ n >= 5 => (r[3] = ":" /\ IsNum(SubSeq(r, 4, 5), 2))
                 /\ n >= 8 => (r[6] = ":" /\ IsNum(SubSeq(r, 7, 8), 2))
        h == DigitsToNat(SubSeq(r, 1, 2))
        m == IF n >= 5 THEN DigitsToNat(SubSeq(r, 4, 5)) ELSE 0
        sec == IF n >= 8 THEN DigitsToNat(SubSeq(r, 7, 8)) ELSE 0
    IN  IF shape /\ h < 24 /\ m < 60 /\ sec < 60
        THEN [ok |-> TRUE, hms |-> <<h, m, sec>>]
        ELSE [ok |-> FALSE, hms |-> <<0, 0, 0>>]

IsoOffset(z, acceptsZ) ==
    IF z = <<>> THEN [ok |-> TRUE, tz |-> <<0, 0>>]
    ELSE IF z = <<"Z">> THEN [ok |-> acceptsZ, tz |-> <<1, 0>>]
    ELSE IF /\ Len(z) = 6 /\ z[1] \in {"+", "-"} /\ z[4] = ":"
            /\ IsNum(SubSeq(z, 2, 3), 2) /\ IsNum(SubSeq(z, 5, 6), 2)
            /\ DigitsToNat(SubSeq(z, 2, 3)) < 24
            /\ DigitsToNat(SubSeq(z, 5, 6)) < 60
    THEN [ok |-> TRUE,
          tz |-> <<1, Signed(z, 60 * DigitsToNat(SubSeq(z, 2, 3))
                                 + DigitsToNat(SubSeq(z, 5, 6)))>>]
    ELSE [ok |-> FALSE, tz |-> <<0, 0>>]

py_fromisoformat(v, acceptsZ) ==
    IF v.k # "str" THEN Raise("TypeError")
    ELSE
    LET s == v.s
        dateOk == /\ Len(s) >= 10
                  /\ IsNum(SubSeq(s, 1, 4), 4) /\ s[5] = "-"
                  /\ IsNum(SubSeq(s, 6, 7), 2) /\ s[8] = "-"
                  /\ IsNum(SubSeq(s, 9, 10), 2)
        y == DigitsToNat(SubSeq(s, 1, 4))
        m == DigitsToNat(SubSeq(s, 6, 7))
        d == DigitsToNat(SubSeq(s, 9, 10))
        r == IF Len(s) > 11 THEN SubSeq(s, 12, Len(s)) ELSE <<>>
        zi == IF \E i \in 1..Len(r) : r[i] \in {"Z", "+", "-"}
              THEN CHOOSE i \in 1..Len(r) :
                       /\ r[i] \in {"Z", "+", "-"}
                       /\ \A j \in 1..(i - 1) : r[j] \notin {"Z", "+", "-"}
              ELSE Len(r) + 1
        tm == IsoTime(SubSeq(r, 1, zi - 1))
        off == IsoOffset(SubSeq(r, zi, Len(r)), acceptsZ)
    IN  IF ~(dateOk /\ ValidDate(y, m, d)) THEN Raise("ValueError")
        ELSE IF Len(s) = 10 THEN Ok(PyDateTime(<<y, m, d, 0, 0, 0, 0, 0>>))
        ELSE IF Len(s) > 11 /\ tm.ok /\ off.ok
        THEN Ok(PyDateTime(<<y, m, d>> \o tm.hms \o off.tz))
        ELSE Raise("ValueError")

(***************************************************************************)
(* The model classes: each dataclass field in declaration order, with the  *)
(* base type of its annotation, whether the annotation is "<base> | None", *)
(* and its declared default.  MISSING is dataclasses.MISSING, the default  *)
(* of a field that declares none.                                          *)
(***************************************************************************)
MISSING == PyVal("MISSING", 0, 0, <<>>, <<>>, <<>>)

Field(name, base, optional, default) ==
    [name |-> name, base |-> base, optional |-> optional, default |-> default]

AssortmentGroupFields ==
    << Field("id", "int", TRUE, None),
       Field("name", "str", TRUE, None),
       Field("description", "str", TRUE, None),
       Field("count", "int", TRUE, None),
       Field("type", "int", TRUE, None),
       Field("has_image", "bool", TRUE, None),
       Field("has_thumb", "bool", TRUE, None),
       Field("search", "str", TRUE, None),
       Field("hidden", "bool", TRUE, None) >>

BoxFields ==
    << Field("id", "str", TRUE, None),
       Field("since", "datetime.datetime", TRUE, None) >>

FavouriteFields ==
    << Field("entity", "int", TRUE, None),
       Field("id", "int", TRUE, None) >>

GroupFields ==
    << Field("id", "int", TRUE, None),
       Field("name", "str", TRUE, None),
       Field("infotext", "str", TRUE, None),
       Field("count", "int", TRUE, None),
       Field("subgroup_count", "int", TRUE, None),
       Field("labels", "str", TRUE, None),
       Field("has_img", "int", TRUE, None),
       Field("has_tn", "int", TRUE, None) >>

PauseFields ==
    << Field("id", "int", TRUE, None),
       Field("start_date", "datetime.date", TRUE, None),
       Field("end_date", "datetime.date", TRUE, None),
       Field("dt", "datetime.datetime", TRUE, None),
       Field("note", "str", TRUE, None),
       Field("type", "int", TRUE, None),
       Field("ref_id", "int", TRUE, None) >>

PositionFields ==
    << Field("id", "int", FALSE, PyInt(0)),
       Field("amount", "float", FALSE, PyFloat(0, 0)),
       Field("unit_name", "str", FALSE, PyStr(<<>>)),
       Field("price", "float", FALSE, PyFloat(0, 0)),
       Field("assortment_reference_id", "int", FALSE, PyInt(0)),
       Field("deleted", "int", FALSE, PyInt(0)),
       Field("pack_station", "str", TRUE, None),
       Field("pack_station_id", "int", FALSE, PyInt(0)),
       Field("packed_late", "int", FALSE, PyInt(0)),
       Field("driver_note", "str", TRUE, None),
       Field("box_name", "str", TRUE, PyStr(<<>>)),
       Field("delivered_amount", "float", FALSE, PyFloat(0, 0)),
       Field("subscription_reference_id", "int", FALSE, PyInt(0)),
       Field("discount", "int", FALSE, PyInt(0)),
       Field("protection", "int", FALSE, PyInt(0)),
       Field("note", "str", TRUE, None),
       Field("base_unit", "str", TRUE, None) >>

ShopFields ==
    << Field("latitude", "float", TRUE, None),
       Field("longitude", "float", TRUE, None),
       Field("name", "str", TRUE, None),
       Field("delivery_lat", "float", TRUE, None),
       Field("delivery_lng", "float", TRUE, None),
       Field("id", "str", TRUE, None) >>

\* the classes modelled, of the 34 that MODEL_REGISTRY registers
Classes ==
    {"AssortmentGroup", "Group", "Favourite", "Box", "Pause", "Position", "Shop"}

\* list(cls.__dataclass_fields__.items()), models.py line 48
dataclass_fields(cls) ==
    CASE cls = "AssortmentGroup" -> AssortmentGroupFields
      [] cls = "Group" -> GroupFields
      [] cls = "Favourite" -> FavouriteFields
      [] cls = "Box" -> BoxFields
      [] cls = "Pause" -> PauseFields
      [] cls = "Position" -> PositionFields
      [] cls = "Shop" -> ShopFields

\* a variant that gives a bare type as its own one member
get_args_BareIsMember(f) == {f.base} \cup (IF f.optional THEN {"NoneType"} ELSE {})

\* typing.get_args of a field's type hint, models.py lines 69-70: the members
\* of a union, and nothing for a bare type such as int
get_args(f) == IF f.optional THEN {f.base, "NoneType"} ELSE {}

(***************************************************************************)
(* The conversion of one present, non-empty value, models.py lines 73-99:  *)
(* the first branch whose type is among the hint's members converts; a     *)
(* ValueError or TypeError gives None, any other exception propagates.     *)
(***************************************************************************)
convert(types, value, acceptsZ) ==
    LET r == IF "int" \in types THEN py_int(value)
             ELSE IF "datetime.datetime" \in types
                  THEN py_fromisoformat(value, acceptsZ)
             ELSE IF "datetime.date" \in types THEN py_strptime(value)
             ELSE IF "float" \in types THEN py_float(value)
             ELSE IF "bool" \in types THEN Ok(PyBool(py_bool(value)))
             ELSE IF "str" \in types
                  THEN Ok(IF py_bool(value) THEN PyStr(py_str(value)) ELSE None)
             ELSE Ok(value)
    IN  IF r.exc \in {"ValueError", "TypeError"} THEN Ok(None) ELSE r

(***************************************************************************)
(* len(data) and data[index] for the raw entry handed in, whatever it is:  *)
(* a list or a text is indexed, a JSON object has a length and no integer  *)
(* key, anything else has no length.                                       *)
(***************************************************************************)
py_len(data) ==
    CASE data.k = "list" -> [exc |-> "", n |-> Len(data.items)]
      [] data.k = "str" -> [exc |-> "", n |-> Len(data.s)]
      [] data.k = "dict" -> [exc |-> "", n |-> data.n]
      [] OTHER -> [exc |-> "TypeError", n |-> 0]

Min(a, b) == IF a < b THEN a ELSE b

\* a variant that reads the first position whatever the index
py_getitem_First(data, i) ==
    CASE data.k = "list" -> Ok(data.items[1])
      [] data.k = "str" -> Ok(PyStr(<<data.s[1]>>))
      [] OTHER -> Raise("KeyError")

py_getitem(data, i) ==
    CASE data.k = "list" -> Ok(data.items[i])
      [] data.k = "str" -> Ok(PyStr(<<data.s[i]>>))
      [] OTHER -> Raise("KeyError")

(***************************************************************************)
(* DataListModel.from_data_list_entry, models.py lines 28-101.  The loop   *)
(* of lines 53-99 from field `index` (1-based here) on, `kwargs` holding   *)
(* the values of the fields before it, in field order.                     *)
(***************************************************************************)
NoObject == [cls |-> "", kwargs |-> <<>>]

RECURSIVE decode_loop(_, _, _, _, _)
decode_loop(cls, data, index, kwargs, acceptsZ) ==
    LET field_list == dataclass_fields(cls)
        field_def == field_list[index]
        value == py_getitem(data, index)
        conv == convert(get_args(field_def), value.val, acceptsZ)
    IN  IF index > Len(field_list)
        THEN [exc |-> "", obj |-> [cls |-> cls, kwargs |-> kwargs]]
        ELSE IF index > py_len(data).n
        THEN decode_loop(cls, data, index + 1,
                Append(kwargs, IF field_def.default # MISSING
                               THEN field_def.default ELSE None),
                acceptsZ)
        ELSE IF value.exc # "" THEN [exc |-> value.exc, obj |-> NoObject]
        ELSE IF value.val = None \/ value.val = PyStr(<<>>)
        THEN decode_loop(cls, data, index + 1, Append(kwargs, None), acceptsZ)
        ELSE IF conv.exc # "" THEN [exc |-> conv.exc, obj |-> NoObject]
        ELSE decode_loop(cls, data, index + 1, Append(kwargs, conv.val),
                         acceptsZ)

\* a variant that gives a present null the declared default of its field
from_data_list_entry_NullTakesDefault(cls, data, acceptsZ) ==
    LET n == py_len(data)
        r == decode_loop(cls, data, 1, <<>>, acceptsZ)
        field_list == dataclass_fields(cls)
    IN  IF n.exc # "" THEN [exc |-> n.exc, obj |-> NoObject]
        ELSE IF r.exc # "" \/ data.k # "list" THEN r
        ELSE [exc |-> "",
              obj |-> [cls |-> cls,
                       kwargs |-> [i \in 1..Len(field_list) |->
                           IF i <= Len(data.items) /\ data.items[i] = None
                           THEN field_list[i].default
                           ELSE r.obj.kwargs[i]]]]

\* a variant that fills no field the raw entry is too short for
from_data_list_entry_NoDefaults(cls, data, acceptsZ) ==
    LET n == py_len(data)
        r == decode_loop(cls, data, 1, <<>>, acceptsZ)
    IN  IF n.exc # "" THEN [exc |-> n.exc, obj |-> NoObject]
        ELSE IF r.exc # "" THEN r
        ELSE [exc |-> "",
              obj |-> [cls |-> cls,
                       kwargs |-> SubSeq(r.obj.kwargs, 1,
                                         Min(n.n, Len(r.obj.kwargs)))]]

from_data_list_entry(cls, data, acceptsZ) ==
    LET n == py_len(data)
    IN  IF n.exc # "" THEN [exc |-> n.exc, obj |-> NoObject]
        ELSE decode_loop(cls, data, 1, <<>>, acceptsZ)

(***************************************************************************)
(* MODEL_REGISTRY, models.py lines 2136-2171, for the classes modelled,    *)
(* and MODEL_REGISTRY.get(object_type): a tag that is no text is looked up *)
(* like any other key, and an unhashable one (a list, an object) raises    *)
(* TypeError.                                                              *)
(***************************************************************************)
MODEL_REGISTRY == [tag \in Classes |-> tag]

\* a type tag is only ever compared, never read character by character:
\* its text is kept whole, as the one element of s
Tag(name) == PyStr(<<name>>)

RegisteredTag(object_type) == \E c \in Classes : object_type = Tag(c)

registry_get(object_type) ==
    IF object_type.k \in {"list", "dict"}
    THEN [exc |-> "TypeError", cls |-> ""]
    ELSE IF RegisteredTag(object_type)
    THEN [exc |-> "", cls |-> MODEL_REGISTRY[object_type.s[1]]]
    ELSE [exc |-> "", cls |-> ""]

(***************************************************************************)
(* parse_data_list_response, models.py lines 2174-2216.                    *)
(*                                                                         *)
(* An entry of the envelope (response_item) is a record [k, hasType, type, *)
(* hasData, data]: k = "dict" for a JSON object, whose "type" and "data"   *)
(* keys may each be absent, and the value's kind for anything else.        *)
(***************************************************************************)
Item(object_type, data) ==
    [k |-> "dict", hasType |-> TRUE, type |-> object_type,
     hasData |-> TRUE, data |-> data]

ItemNoData(object_type) ==
    [k |-> "dict", hasType |-> TRUE, type |-> object_type,
     hasData |-> FALSE, data |-> None]

ItemNoType(data) ==
    [k |-> "dict", hasType |-> FALSE, type |-> None,
     hasData |-> TRUE, data |-> data]

NotAnObject(v) ==
    [k |-> v.k, hasType |-> FALSE, type |-> None, hasData |-> FALSE, data |-> v]

\* response_item.get("data", []), line 2200
get_data(response_item) ==
    IF response_item.hasData THEN response_item.data ELSE PyList(<<>>)

\* what `for data_entry in data_entries` iterates over, line 2202: the
\* elements of a list, the characters of a text, the keys of an object;
\* anything else is not iterable
py_iter(v) ==
    CASE v.k = "list" -> [exc |-> "", seq |-> v.items]
      [] v.k = "str" -> [exc |-> "", seq |-> [i \in 1..Len(v.s) |-> PyStr(<<v.s[i]>>)]]
      [] v.k = "dict" -> [exc |-> "", seq |-> v.items]
      [] OTHER -> [exc |-> "TypeError", seq |-> <<>>]

\* a == b of Python for a number b: True == 1 and 0.0 == 0
py_eq_int(a, n) == a.k \in {"int", "bool", "float"} /\ a.q = 0 /\ a.n = n

\* data_entry == [0], line 2204
is_terminator(data_entry) ==
    /\ data_entry.k = "list"
    /\ Len(data_entry.items) = 1
    /\ py_eq_int(data_entry.items[1], 0)

\* the exceptions that line 2212 catches
Caught == {"IndexError", "ValueError", "TypeError"}

(***************************************************************************)
(* The inputs drawn.                                                       *)
(***************************************************************************)
\* the values a raw positional array holds
Values ==
    { None,
      PyStr(<<>>),
      PyStr(<<"a", "b", "c">>),
      PyStr(<<"0">>),
      PyStr(<<"2", "0", "2", "3", "-", "1", "2", "-", "2", "5">>),
      PyStr(<<"2", "0", "2", "3", "-", "1", "2", "-", "2", "5", "T",
              "1", "0", ":", "0", "0", ":", "0", "0", "Z">>),
      PyInt(0),
      PyInt(25),
      PyBool(FALSE),
      PyFloat(25, 1),
      PyInf }

SeqsUpTo(S, n) == UNION {[1..k -> S] : k \in 0..n}

\* what from_data_list_entry is called with: the raw arrays, and raw
\* entries that are no array
RawLists == {PyList(r) : r \in SeqsUpTo(Values, MaxLen)}

NonLists ==
    { None, PyInt(5), PyStr(<<"a", "b">>), PyDict(<<>>),
      PyDict(<<PyStr(<<"a">>)>>) }

\* the two raw arrays of the Group examples
Fruits == <<"F", "r", "u", "i", "t", "s">>
FreshFruits == <<"F", "r", "e", "s", "h", " ", "f", "r", "u", "i", "t", "s">>
Vegetables == <<"V", "e", "g", "e", "t", "a", "b", "l", "e", "s">>

ScenarioA == PyList(<<PyInt(1), PyStr(Fruits), PyStr(FreshFruits), PyInt(25)>>)
ScenarioB == PyList(<<PyInt(2), PyStr(Vegetables)>>)

\* raw arrays that reach the sixth position, where AssortmentGroup declares
\* has_image: each value there, after an id and four nulls
SixthPosition ==
    {PyList(<<PyInt(1), None, None, None, None, v>>) : v \in Values}

\* the raw entries of a batch: two records, the two terminator forms, and
\* entries that are no array (a number, a text, an object)
Rec1 == PyList(<<PyInt(1), PyStr(<<"a", "b">>)>>)
Rec2 == PyList(<<PyInt(2), PyStr(<<"c", "d">>)>>)
Term0 == PyList(<<PyInt(0)>>)
TermMinus1 == PyList(<<PyInt(-1)>>)

BatchEntries ==
    { Rec1, Term0, TermMinus1, PyInt(5), PyStr(<<"a", "b">>),
      PyDict(<<PyStr(<<"a">>)>>) }

Batches == {PyList(b) : b \in SeqsUpTo(BatchEntries, MaxBatch)}

\* the values of an entry's "data" key: a batch, or no list at all
DataForms ==
    Batches \cup {None, PyInt(5), PyStr(<<"a", "b">>), PyDict(<<PyStr(<<"k">>)>>)}

Tags == {Tag("Group"), Tag("Box"), Tag("Nope")}

\* the entries of an envelope: every tag with every data form or none,
\* entries with no type, with a type that is no text, and no objects
WideItems ==
    {Item(tg, d) : tg \in Tags, d \in DataForms}
        \cup {ItemNoData(tg) : tg \in Tags}
        \cup { ItemNoType(PyList(<<Rec1>>)),
               NotAnObject(PyInt(5)),
               NotAnObject(None),
               Item(None, PyList(<<Rec1>>)),
               Item(PyInt(5), PyList(<<Rec1>>)),
               Item(PyList(<<PyInt(1)>>), PyList(<<Rec1>>)) }

\* the entries that may stand before and after it
Context ==
    { <<>>,
      <<Item(Tag("Box"), PyList(<<Rec2, Term0>>))>>,
      <<Item(Tag("Nope"), PyList(<<Rec1>>))>> }

Envelopes == {pre \o <<w>> \o post : pre \in Context, w \in WideItems, post \in Context}

(***************************************************************************)
(* State.                                                                  *)
(***************************************************************************)
(***************************************************************************)
(* The exceptions of exceptions.py.  An exception is a record of its class *)
(* and attributes; each constructor takes its arguments in the order of    *)
(* its signature: (message, internal_error, status_code[, response_data]). *)
(***************************************************************************)
NoExc ==
    [cls |-> "", message |-> <<>>, internal_error |-> None,
     status_code |-> None, response_data |-> None]

\* OekoboxError.__init__, exceptions.py lines 9-25
OekoboxError(class, message, internal_error, status_code) ==
    [cls |-> class, message |-> message, internal_error |-> internal_error,
     status_code |-> status_code, response_data |-> None]

\* OekoboxAPIError.__init__, lines 31-47
OekoboxAPIError(message, internal_error, status_code, response_data) ==
    [OekoboxError("OekoboxAPIError", message, internal_error, status_code)
        EXCEPT !.response_data =
            IF py_bool(response_data) THEN response_data ELSE PyDict(<<>>)]

\* OekoboxAuthenticationError.__init__, lines 53-66
OekoboxAuthenticationError(message, internal_error, status_code) ==
    OekoboxError("OekoboxAuthenticationError", message, internal_error,
                 status_code)

\* OekoboxConnectionError.__init__, lines 72-78
OekoboxConnectionError(message) ==
    OekoboxError("OekoboxConnectionError", message, None, None)

\* OekoboxValidationError.__init__, lines 84-90
OekoboxValidationError(message) ==
    OekoboxError("OekoboxValidationError", message, None, None)

\* an exception of Python itself
BuiltinError(class) == OekoboxError(class, <<>>, None, None)

\* what an operation of the client gave: the exception it raised or the
\* value it returned, the URLs it requested and the responses it received
NoOutcome ==
    [op |-> "", exc |-> NoExc, value |-> None, urls |-> <<>>,
     responses |-> <<>>]

VARIABLES
    cls,             \* the class from_data_list_entry is called on
    data,            \* its argument
    result,          \* what the call gave: [exc, obj]
    again,           \* what a second call with the same arguments gave
    py311,           \* whether the runtime's fromisoformat accepts a trailing Z
    response_data,   \* the envelope parse_data_list_response is called with
    ri,              \* the index of the response_item the outer loop is at
    model_class,     \* the class its tag is registered for
    data_entries,    \* what the inner loop iterates over
    di,              \* the index of the data_entry the inner loop is at
    parsed_objects,  \* the list it builds
    exc,             \* the exception that left parse_data_list_response, or ""
    pc,              \* where the call is
    registry,        \* the dict object MODEL_REGISTRY: tag -> class
    heap,            \* the list objects allocated, by identity (1, 2, ...)
    calls,           \* the locals of each concurrent call
    pending,         \* the (tag, class) pairs still to be put in the registry
    looked,          \* what the last lookup in the registry gave
    session_id,      \* OekoboxClient.session_id
    sent,            \* the requests the client sent: [url, sid] each
    outcome,         \* what the client's last operation gave
    _client          \* OekoboxClient._client: None or the httpx.AsyncClient

vars ==
    <<cls, data, result, again, py311, response_data, ri, model_class, data_entries,
      di, parsed_objects, exc, pc, registry, heap, calls, pending, looked,
      session_id, sent, outcome, _client>>

NoResult == [exc |-> "", obj |-> NoObject]

decodeVars == <<cls, data, result, again>>
parseVars ==
    <<response_data, ri, model_class, data_entries, di, parsed_objects, exc>>
concVars == <<heap, calls>>
regVars == <<pending, looked>>
\* the variables that neither a single decode nor a single parse touches
clientVars == <<session_id, sent, outcome, _client>>
elseVars == <<registry, concVars, regVars, clientVars>>

\* a client just constructed (client.py lines 83 and 92) that has done
\* nothing
ClientIdle ==
    /\ session_id = None
    /\ sent = <<>>
    /\ outcome = NoOutcome
    /\ _client = None

\* no concurrent calls are under way, the registry is as the module built it
ElseIdle ==
    /\ registry = MODEL_REGISTRY
    /\ heap = <<>>
    /\ calls = <<>>
    /\ pending = <<>>
    /\ looked = ""
    /\ ClientIdle

(***************************************************************************)
(* Specification Spec: one call of from_data_list_entry.                   *)
(***************************************************************************)
Init ==
    /\ cls \in Classes
    /\ data \in RawLists \cup NonLists \cup {ScenarioA, ScenarioB}
                 \cup SixthPosition
    /\ result = NoResult
    /\ again = NoResult
    /\ ElseIdle
    /\ py311 \in BOOLEAN
    /\ response_data = <<>>
    /\ ri = 0
    /\ model_class = ""
    /\ data_entries = <<>>
    /\ di = 0
    /\ parsed_objects = <<>>
    /\ exc = ""
    /\ pc = "call"

\* a variant that consumes the raw list it decodes
DecodeReturns_ConsumesList ==
    LET r == from_data_list_entry(cls, data, py311)
    IN  /\ pc = "call"
        /\ r.exc = ""
        /\ result' = r
        /\ data' = IF data.k = "list" THEN PyList(<<>>) ELSE data
        /\ pc' = "returned"
        /\ UNCHANGED <<cls, again, py311, parseVars, elseVars>>

\* the call returns an object (line 101)
DecodeReturns ==
    LET r == from_data_list_entry(cls, data, py311)
    IN  /\ pc = "call"
        /\ r.exc = ""
        /\ result' = r
        /\ pc' = "returned"
        /\ UNCHANGED <<cls, data, again, py311, parseVars, elseVars>>

\* the call raises: len() of no sequence, an integer key of an object, or
\* a conversion's exception that line 97 does not catch
DecodeRaises ==
    LET r == from_data_list_entry(cls, data, py311)
    IN  /\ pc = "call"
        /\ r.exc # ""
        /\ result' = r
        /\ pc' = "raised"
        /\ UNCHANGED <<cls, data, again, py311, parseVars, elseVars>>

\* the caller calls once more, on the same class with the same list object
DecodeAgain ==
    /\ pc \in {"returned", "raised"}
    /\ again' = from_data_list_entry(cls, data, py311)
    /\ pc' = "repeated"
    /\ UNCHANGED <<cls, data, result, py311, parseVars, elseVars>>

Next == DecodeReturns \/ DecodeRaises \/ DecodeAgain

Spec == Init /\ [][Next]_vars

(***************************************************************************)
(* Specification ParseSpec: one call of parse_data_list_response, one      *)
(* action per pass of its outer loop (pc = "loop") and of its inner loop   *)
(* (pc = "batch").  No text of these envelopes is a timestamp, so that the *)
(* runtime's fromisoformat plays no part: py311 is left at TRUE.           *)
(***************************************************************************)
ParseInit ==
    /\ response_data \in Envelopes
    /\ ri = 1
    /\ model_class = ""
    /\ data_entries = <<>>
    /\ di = 0
    /\ parsed_objects = <<>>
    /\ exc = ""
    /\ pc = "loop"
    /\ py311 = TRUE
    /\ cls = ""
    /\ data = None
    /\ result = NoResult
    /\ again = NoResult
    /\ ElseIdle

AtItem == pc = "loop" /\ ri <= Len(response_data)

HasType(response_item) == response_item.k = "dict" /\ response_item.hasType

\* lines 2191-2192: no JSON object, or one with no "type"
SkipItem ==
    /\ AtItem
    /\ ~HasType(response_data[ri])
    /\ ri' = ri + 1
    /\ UNCHANGED <<response_data, model_class, data_entries, di,
                   parsed_objects, exc, pc, py311, decodeVars, elseVars>>

\* line 2195: MODEL_REGISTRY.get of an unhashable tag raises
LookupRaises ==
    /\ AtItem
    /\ HasType(response_data[ri])
    /\ registry_get(response_data[ri].type).exc # ""
    /\ exc' = registry_get(response_data[ri].type).exc
    /\ pc' = "raised"
    /\ UNCHANGED <<response_data, ri, model_class, data_entries, di,
                   parsed_objects, py311, decodeVars, elseVars>>

\* a variant that leaves the outer loop at the first unregistered tag
SkipUnregistered_Break ==
    /\ AtItem
    /\ HasType(response_data[ri])
    /\ registry_get(response_data[ri].type) = [exc |-> "", cls |-> ""]
    /\ pc' = "returned"
    /\ UNCHANGED <<response_data, ri, model_class, data_entries, di,
                   parsed_objects, exc, py311, decodeVars, elseVars>>

\* lines 2195-2198: the tag is not registered
SkipUnregistered ==
    /\ AtItem
    /\ HasType(response_data[ri])
    /\ registry_get(response_data[ri].type) = [exc |-> "", cls |-> ""]
    /\ ri' = ri + 1
    /\ UNCHANGED <<response_data, model_class, data_entries, di,
                   parsed_objects, exc, pc, py311, decodeVars, elseVars>>

\* lines 2195-2202: the tag is registered and the inner loop starts
EnterBatch ==
    /\ AtItem
    /\ HasType(response_data[ri])
    /\ registry_get(response_data[ri].type).cls # ""
    /\ py_iter(get_data(response_data[ri])).exc = ""
    /\ model_class' = registry_get(response_data[ri].type).cls
    /\ data_entries' = py_iter(get_data(response_data[ri])).seq
    /\ di' = 1
    /\ pc' = "batch"
    /\ UNCHANGED <<response_data, ri, parsed_objects, exc, py311, decodeVars, elseVars>>

\* line 2202: the tag is registered and "data" cannot be iterated
DataNotIterable ==
    /\ AtItem
    /\ HasType(response_data[ri])
    /\ registry_get(response_data[ri].type).cls # ""
    /\ py_iter(get_data(response_data[ri])).exc # ""
    /\ exc' = py_iter(get_data(response_data[ri])).exc
    /\ pc' = "raised"
    /\ UNCHANGED <<response_data, ri, model_class, data_entries, di,
                   parsed_objects, py311, decodeVars, elseVars>>

AtEntry == pc = "batch" /\ di <= Len(data_entries)

\* lines 2204-2205
SkipTerminator ==
    /\ AtEntry
    /\ is_terminator(data_entries[di])
    /\ di' = di + 1
    /\ UNCHANGED <<response_data, ri, model_class, data_entries,
                   parsed_objects, exc, pc, py311, decodeVars, elseVars>>

\* lines 2207-2214: the entry is decoded and appended, or skipped on an
\* exception that line 2212 catches, or its exception leaves the function
DecodeEntry ==
    LET r == from_data_list_entry(model_class, data_entries[di], py311)
    IN  /\ AtEntry
        /\ ~is_terminator(data_entries[di])
        /\ \/ /\ r.exc = ""
              /\ parsed_objects' = Append(parsed_objects, r.obj)
              /\ di' = di + 1
              /\ UNCHANGED <<exc, pc>>
           \/ /\ r.exc \in Caught
              /\ di' = di + 1
              /\ UNCHANGED <<parsed_objects, exc, pc>>
           \/ /\ r.exc # "" /\ r.exc \notin Caught
              /\ exc' = r.exc
              /\ pc' = "raised"
              /\ UNCHANGED <<parsed_objects, di>>
        /\ UNCHANGED <<response_data, ri, model_class, data_entries, py311,
                       decodeVars, elseVars>>

\* the inner loop ends: the outer loop goes on with the next entry
EndBatch ==
    /\ pc = "batch"
    /\ di > Len(data_entries)
    /\ ri' = ri + 1
    /\ pc' = "loop"
    /\ UNCHANGED <<response_data, model_class, data_entries, di,
                   parsed_objects, exc, py311, decodeVars, elseVars>>

\* line 2216
ParseReturns ==
    /\ pc = "loop"
    /\ ri > Len(response_data)
    /\ pc' = "returned"
    /\ UNCHANGED <<response_data, ri, model_class, data_entries, di,
                   parsed_objects, exc, py311, decodeVars, elseVars>>

ParseNext ==
    \/ SkipItem
    \/ LookupRaises
    \/ SkipUnregistered
    \/ EnterBatch
    \/ DataNotIterable
    \/ SkipTerminator
    \/ DecodeEntry
    \/ EndBatch
    \/ ParseReturns

ParseSpec == ParseInit /\ [][ParseNext]_vars

(***************************************************************************)
(* Specification ConcSpec: two calls of parse_data_list_response, on two   *)
(* different envelopes, interleaved pass by pass.  A call's locals are its *)
(* own (calls[t]); the list it builds is an object of the heap, allocated  *)
(* by `parsed_objects = []` and named by its identity; MODEL_REGISTRY is   *)
(* the one module-level dict that both calls read.                         *)
(***************************************************************************)
Threads == {1, 2}

\* registry.get(object_type) on a dict tag -> class
dict_get(d, object_type) ==
    IF object_type.k \in {"list", "dict"}
    THEN [exc |-> "TypeError", cls |-> ""]
    ELSE IF /\ object_type.k = "str"
            /\ Len(object_type.s) = 1
            /\ object_type.s[1] \in DOMAIN d
    THEN [exc |-> "", cls |-> d[object_type.s[1]]]
    ELSE [exc |-> "", cls |-> ""]

ConcEnvelopes ==
    { <<Item(Tag("Group"), PyList(<<Rec1, Term0>>))>>,
      <<Item(Tag("Box"), PyList(<<Rec2, PyInt(5)>>)),
        Item(Tag("Nope"), PyList(<<Rec1>>))>>,
      <<NotAnObject(PyInt(5)), Item(Tag("Group"), PyList(<<TermMinus1, Rec2>>))>>,
      <<Item(Tag("Box"), PyList(<<Rec1, PyDict(<<PyStr(<<"a">>)>>)>>))>>,
      <<Item(Tag("Group"), PyList(<<Rec1>>)), Item(Tag("Group"), None)>>,
      <<Item(PyList(<<PyInt(1)>>), PyList(<<Rec1>>))>> }

NewCall(envelope) ==
    [pc |-> "idle", response_data |-> envelope, ri |-> 0, model_class |-> "",
     data_entries |-> <<>>, di |-> 0, parsed_objects |-> 0, exc |-> ""]

ConcInit ==
    /\ \E e1, e2 \in ConcEnvelopes :
          e1 # e2 /\ calls = [t \in Threads |-> NewCall(IF t = 1 THEN e1 ELSE e2)]
    /\ heap = <<>>
    /\ registry = MODEL_REGISTRY
    /\ pending = <<>>
    /\ looked = ""
    /\ ClientIdle
    /\ py311 = TRUE
    /\ pc = "concurrent"
    /\ cls = ""
    /\ data = None
    /\ result = NoResult
    /\ again = NoResult
    /\ response_data = <<>>
    /\ ri = 0
    /\ model_class = ""
    /\ data_entries = <<>>
    /\ di = 0
    /\ parsed_objects = <<>>
    /\ exc = ""

concRest ==
    <<registry, regVars, clientVars, py311, pc, decodeVars, parseVars>>

\* a variant whose result list is one object shared by all calls, as a
\* module-level list would be
CParseCall_SharedList(t) ==
    /\ calls[t].pc = "idle"
    /\ heap' = IF heap = <<>> THEN <<(<<>>)>> ELSE heap
    /\ calls' = [calls EXCEPT ![t].pc = "loop", ![t].ri = 1,
                              ![t].parsed_objects = 1]
    /\ UNCHANGED concRest

\* line 2188: parsed_objects = [] allocates a new list
CParseCall(t) ==
    /\ calls[t].pc = "idle"
    /\ heap' = Append(heap, <<>>)
    /\ calls' = [calls EXCEPT ![t].pc = "loop", ![t].ri = 1,
                              ![t].parsed_objects = Len(heap) + 1]
    /\ UNCHANGED concRest

\* lines 2190-2202: one pass of the outer loop, up to the inner loop
CParseItem(t) ==
    LET c == calls[t]
        response_item == c.response_data[c.ri]
        found == dict_get(registry, response_item.type)
        it == py_iter(get_data(response_item))
    IN  /\ c.pc = "loop"
        /\ c.ri <= Len(c.response_data)
        /\ calls' = [calls EXCEPT ![t] =
              IF ~HasType(response_item) THEN [c EXCEPT !.ri = @ + 1]
              ELSE IF found.exc # ""
                   THEN [c EXCEPT !.pc = "raised", !.exc = found.exc]
              ELSE IF found.cls = "" THEN [c EXCEPT !.ri = @ + 1]
              ELSE IF it.exc # ""
                   THEN [c EXCEPT !.pc = "raised", !.exc = it.exc,
                                  !.model_class = found.cls]
              ELSE [c EXCEPT !.pc = "batch", !.model_class = found.cls,
                             !.data_entries = it.seq, !.di = 1]]
        /\ UNCHANGED <<heap, concRest>>

\* lines 2202-2214: one pass of the inner loop
CParseEntry(t) ==
    LET c == calls[t]
        data_entry == c.data_entries[c.di]
        r == from_data_list_entry(c.model_class, data_entry, py311)
        appends == ~is_terminator(data_entry) /\ r.exc = ""
        raises == ~is_terminator(data_entry) /\ r.exc \notin Caught \cup {""}
    IN  /\ c.pc = "batch"
        /\ c.di <= Len(c.data_entries)
        /\ heap' = IF appends
                   THEN [heap EXCEPT ![c.parsed_objects] = Append(@, r.obj)]
                   ELSE heap
        /\ calls' = [calls EXCEPT ![t] =
              IF raises THEN [c EXCEPT !.pc = "raised", !.exc = r.exc]
              ELSE [c EXCEPT !.di = @ + 1]]
        /\ UNCHANGED concRest

\* line 2202: the inner loop is exhausted
CParseEndBatch(t) ==
    /\ calls[t].pc = "batch"
    /\ calls[t].di > Len(calls[t].data_entries)
    /\ calls' = [calls EXCEPT ![t].pc = "loop", ![t].ri = @ + 1]
    /\ UNCHANGED <<heap, concRest>>

\* line 2216: return parsed_objects
CParseReturn(t) ==
    /\ calls[t].pc = "loop"
    /\ calls[t].ri > Len(calls[t].response_data)
    /\ calls' = [calls EXCEPT ![t].pc = "returned"]
    /\ UNCHANGED <<heap, concRest>>

ConcNext ==
    \E t \in Threads :
        \/ CParseCall(t)
        \/ CParseItem(t)
        \/ CParseEntry(t)
        \/ CParseEndBatch(t)
        \/ CParseReturn(t)

ConcSpec == ConcInit /\ [][ConcNext]_vars

(***************************************************************************)
(* Specification RegSpec: how the registry comes to hold its entries.  The *)
(* module has no registration routine: MODEL_REGISTRY is a dict display,   *)
(* evaluated entry by entry from left to right when the module is loaded,  *)
(* each entry stored under its tag as an item assignment stores it.  The   *)
(* displays drawn here may name a tag more than once.                      *)
(***************************************************************************)
RegTags == {"Group", "Box"}

RegClasses == {"Group", "Box", "Shop"}

RegEntries == {[tag |-> g, cls |-> c] : g \in RegTags, c \in RegClasses}

EmptyDict == [tag \in {} |-> ""]

\* d[tag] = c
dict_setitem(d, tag, c) ==
    [g \in DOMAIN d \cup {tag} |-> IF g = tag THEN c ELSE d[g]]

RegInit ==
    /\ pending \in SeqsUpTo(RegEntries, MaxRegistrations)
    /\ registry = EmptyDict
    /\ looked = ""
    /\ ClientIdle
    /\ pc = "startup"
    /\ heap = <<>>
    /\ calls = <<>>
    /\ py311 = TRUE
    /\ cls = ""
    /\ data = None
    /\ result = NoResult
    /\ again = NoResult
    /\ response_data = <<>>
    /\ ri = 0
    /\ model_class = ""
    /\ data_entries = <<>>
    /\ di = 0
    /\ parsed_objects = <<>>
    /\ exc = ""

regRest == <<concVars, clientVars, py311, decodeVars, parseVars>>

\* the next entry of the display is stored under its tag
RegisterEntry ==
    /\ pc = "startup"
    /\ pending # <<>>
    /\ registry' = dict_setitem(registry, Head(pending).tag, Head(pending).cls)
    /\ pending' = Tail(pending)
    /\ UNCHANGED <<looked, pc, regRest>>

\* the display is complete: the module is loaded
RegistryBuilt ==
    /\ pc = "startup"
    /\ pending = <<>>
    /\ pc' = "ready"
    /\ UNCHANGED <<registry, pending, looked, regRest>>

\* line 2195: MODEL_REGISTRY.get(object_type), at decode time
RegistryLookup ==
    /\ pc = "ready"
    /\ \E g \in RegTags : looked' = dict_get(registry, Tag(g)).cls
    /\ UNCHANGED <<registry, pending, pc, regRest>>

RegNext == RegisterEntry \/ RegistryBuilt \/ RegistryLookup

RegSpec == RegInit /\ [][RegNext]_vars

(***************************************************************************)
(* Specification ClientSpec: an OekoboxClient inside its context manager   *)
(* (client.py), one action per operation, the HTTP exchange included: the  *)
(* server's answer is drawn.  A response is [transport, status, cookies,   *)
(* body]: transport = FALSE when httpx raises RequestError and there is no *)
(* response; cookies are those of its Set-Cookie headers, which httpx also *)
(* gives as response.cookies; a body is [json, kind, keys, result, rows,    *)
(* text]: keys are the keys of a JSON object, result the value of its      *)
(* "result" key, text is response.text.  A text, like an exception's       *)
(* message, is a sequence of tokens.  URLs are written relative to         *)
(* base_url.                                                               *)
(***************************************************************************)
Text(s) == IF s = "" THEN PyStr(<<>>) ELSE PyStr(<<s>>)

\* the tokens of a string: none for the empty string
Tok(str) == IF str = "" THEN <<>> ELSE <<str>>

\* the JSON object {"result": r}
JsonDict(r) ==
    [json |-> TRUE, kind |-> "dict", keys |-> {"result"}, result |-> r,
     rows |-> <<>>, text |-> <<"{", "result">> \o Tok(r) \o <<"}">>]

\* a JSON object with the given keys, "result" not among them; an "action"
\* key holds "Logon"
JsonObject(keys) ==
    [json |-> TRUE, kind |-> "dict", keys |-> keys, result |-> "",
     rows |-> <<>>, text |-> <<"{", "}">>]

\* the JSON list of one item, {"type": T, "data": rows}, T the tag the
\* operation that receives it looks for
JsonList(rows) ==
    [json |-> TRUE, kind |-> "list", keys |-> {}, result |-> "",
     rows |-> rows, text |-> <<"[", "]">>]

NotJson ==
    [json |-> FALSE, kind |-> "", keys |-> {}, result |-> "", rows |-> <<>>,
     text |-> <<>>]

\* a body that is not JSON, with the given text
Plain(text) == [NotJson EXCEPT !.text = text]

NoCookies == [n \in {} |-> None]

Cookie(name, value) == [n \in {name} |-> Text(value)]

Http(status, cookies, body) ==
    [transport |-> TRUE, status |-> status, cookies |-> cookies, body |-> body]

TransportFailure ==
    [transport |-> FALSE, status |-> 0, cookies |-> NoCookies, body |-> NotJson]

DateText ==
    PyStr(<<"2", "0", "2", "3", "-", "1", "2", "-", "2", "5", "T",
            "1", "0", ":", "0", "0", ":", "0", "0", "Z">>)

DateRow == PyList(<<PyInt(1), PyStr(<<"a", "v">>), DateText>>)

\* the row of item 7, and of item 8
ItemRow ==
    PyList(<<PyInt(7), PyStr(<<"A", "p">>), PyStr(<<"2", ".", "5">>),
             PyStr(<<"k", "g">>)>>)

OtherRow ==
    PyList(<<PyInt(8), PyStr(<<"P", "e">>), PyStr(<<"3">>),
             PyStr(<<"k", "g">>)>>)

Responses ==
    { TransportFailure,
      Http(200, NoCookies, JsonDict("ok")),
      Http(200, Cookie("JSESSIONID", "abc123"), JsonDict("ok")),
      Http(200, Cookie("sessionid", "s1") @@ Cookie("OOSESSION", "o1"),
           JsonDict("ok")),
      Http(200, Cookie("JSESSIONID", ""), JsonDict("ok")),
      Http(200, Cookie("lang", "de"), NotJson),
      Http(200, NoCookies, JsonDict("wrong_password")),
      Http(200, NoCookies, JsonDict("empty")),
      Http(200, NoCookies, JsonDict("weird")),
      Http(200, NoCookies, JsonDict("no_such_user")),
      Http(200, NoCookies, JsonDict("blocked")),
      Http(200, NoCookies, JsonDict("duplicate_user")),
      Http(200, NoCookies, JsonDict("no_data")),
      Http(200, NoCookies, JsonDict("")),
      Http(200, NoCookies, JsonObject({"action"})),
      Http(200, Cookie("JSESSIONID", "xyz789"), JsonObject({"id"})),
      Http(200, NoCookies, JsonList(<<DateRow, Term0>>)),
      Http(200, NoCookies, JsonList(<<Term0>>)),
      Http(200, NoCookies, JsonList(<<OtherRow, ItemRow, Term0>>)),
      Http(200, NoCookies, JsonDict("no_ddate")),
      Http(500, NoCookies, Plain(<<"no_ddate", " handler failed">>)),
      Http(204, NoCookies, NotJson),
      Http(401, Cookie("JSESSIONID", "abc123"), NotJson),
      Http(403, NoCookies, NotJson),
      Http(404, NoCookies, NotJson),
      Http(500, NoCookies, JsonObject({})) }

\* client.py line 158
session_cookies == <<"JSESSIONID", "OOSESSION", "sessionid">>

\* a variant in which a session cookie replaces the session id held
extract_session_id_LatestWins(sid, response) ==
    LET hits == {i \in 1..Len(session_cookies) :
                    /\ session_cookies[i] \in DOMAIN response.cookies
                    /\ py_bool(response.cookies[session_cookies[i]])}
        first == CHOOSE i \in hits : \A j \in hits : i <= j
    IN  IF hits = {} THEN sid ELSE response.cookies[session_cookies[first]]

\* lines 156-181: the first session cookie, in the order of line 158, that
\* the response sets to a non-empty value becomes the session id, unless
\* one is held
extract_session_id(sid, response) ==
    LET hits == {i \in 1..Len(session_cookies) :
                    /\ session_cookies[i] \in DOMAIN response.cookies
                    /\ py_bool(response.cookies[session_cookies[i]])}
        first == CHOOSE i \in hits : \A j \in hits : i <= j
    IN  IF py_bool(sid) \/ hits = {} THEN sid
        ELSE response.cookies[session_cookies[first]]

\* a variant that sends no session parameter
sid_param_Never(sid) == None

\* lines 140-143: params["x-oekobox-sid"], None when the key is not set
sid_param(sid) == IF py_bool(sid) THEN sid ELSE None

\* line 229
AuthResults == {"no_such_user", "wrong_password", "blocked", "duplicate_user"}

\* sub in text, for two strings
str_contains(sub, text) ==
    \E i \in 1..(Len(text) - Len(sub) + 1) :
        SubSeq(text, i, i + Len(sub) - 1) = sub

\* a variant that maps every rejected response to OekoboxAPIError
http_error_AlwaysAPIError(response) ==
    OekoboxAPIError(<<"HTTP ">>, PyInt(response.status), None, None)

\* lines 185-207: the exception for a response raise_for_status rejects.
\* No body drawn here is a JSON object with an "error" key, so error_msg
\* is response.text
http_error(response) ==
    LET code == PyInt(response.status)
        status == ToString(response.status)
    IN  IF response.status = 401
        THEN OekoboxAuthenticationError(
                 <<"HTTP ", status, ": Authentication failed">>, code, None)
        ELSE IF response.status = 403
        THEN OekoboxAuthenticationError(
                 <<"HTTP ", status, ": Access forbidden">>, code, None)
        ELSE OekoboxAPIError(<<"HTTP ", status, ": ">> \o response.body.text,
                             code, None, None)

\* a variant that maps every result that is not "ok" to OekoboxAPIError
api_error_AlwaysAPIError(res, code) ==
    OekoboxAPIError(<<"API error:", " ">> \o Tok(res), code, None, None)

\* lines 225-241: the exception for a JSON object whose "result" is not "ok"
api_error(res, code) ==
    IF res \in AuthResults
    THEN OekoboxAuthenticationError(
             <<"Authentication failed: ">> \o Tok(res), code, None)
    ELSE IF res \in {"empty", "no_data"}
    THEN OekoboxValidationError(<<"Validation error: ">> \o Tok(res))
    ELSE OekoboxAPIError(<<"API error:", " ">> \o Tok(res), code, None, None)

\* OekoboxClient._request from line 136 on, for the response the server
\* gives: the session id after it, the request sent, and the exception
\* raised or the data returned
request(sid, url, response) ==
    LET code == PyInt(response.status)
        body == response.body
        json == IF body.json THEN body
                ELSE [JsonDict("ok") EXCEPT !.keys = {"result", "response_text"}]
        raised ==
            IF ~response.transport
            THEN OekoboxConnectionError(<<"Connection error: ">>)
            ELSE IF response.status >= 400
            THEN http_error(response)
            ELSE IF ~body.json /\ response.status # 200
            THEN OekoboxAPIError(<<"Invalid response: ">> \o body.text,
                                 code, None, None)
            ELSE IF /\ json.kind = "dict"
                    /\ "result" \in json.keys
                    /\ json.result # "ok"
            THEN api_error(json.result, code)
            ELSE NoExc
    IN  [session_id |-> IF response.transport
                        THEN extract_session_id(sid, response) ELSE sid,
         sent |-> [url |-> url, sid |-> sid_param(sid)],
         exc |-> raised,
         data |-> IF raised = NoExc THEN json ELSE NotJson]

\* a variant that sends the request whether or not the client was opened
_request_Unchecked(client, sid, url, response) ==
    [request(sid, url, response) EXCEPT !.sent = <<@>>]

\* OekoboxClient._request, lines 117-243: lines 131-134 raise before
\* anything is sent when _client is None
_request(client, sid, url, response) ==
    IF client = None
    THEN [session_id |-> sid,
          sent |-> <<>>,
          exc |-> OekoboxConnectionError(
                      <<"Client not initialized. Use async context manager.">>),
          data |-> NotJson]
    ELSE [request(sid, url, response) EXCEPT !.sent = <<@>>]

\* str.replace("Z", "+00:00"), line 531
RECURSIVE replace_Z(_)
replace_Z(s) ==
    IF s = <<>> THEN <<>>
    ELSE (IF Head(s) = "Z" THEN <<"+", "0", "0", ":", "0", "0">> ELSE <<Head(s)>>)
         \o replace_Z(Tail(s))

\* the fields of the dataclass DDate, models.py lines 881-930
DDateFields ==
    { "id", "tour_id", "delivery_date", "week", "packing_day", "main_day",
      "note", "customers", "orders" }

\* the __init__ that @dataclass generates: a keyword that names no field
\* raises TypeError
dataclass_init(fields, keywords) ==
    IF keywords \subseteq fields THEN "" ELSE "TypeError"

\* lines 525-532: the row has a date that parses
date_row_parses(date_row) ==
    /\ date_row.k = "list"
    /\ Len(date_row.items) >= 3
    /\ ~py_eq_int(date_row.items[1], 0)
    /\ py_bool(date_row.items[3])
    /\ py_fromisoformat(PyStr(replace_Z(date_row.items[3].s)), FALSE).exc = ""

\* lines 517-544: the dates of the rows that parse, each made a DDate with
\* the keywords date, is_available and delivery_slots
parse_dates(json) ==
    LET good == IF json.kind = "list"
                THEN SelectSeq(json.rows, date_row_parses) ELSE <<>>
        init == dataclass_init(DDateFields,
                               {"date", "is_available", "delivery_slots"})
    IN  IF good # <<>> /\ init # ""
        THEN [exc |-> BuiltinError(init), dates |-> <<>>]
        ELSE [exc |-> NoExc,
              dates |-> [i \in 1..Len(good) |->
                  py_fromisoformat(PyStr(replace_Z(good[i].items[3].s)),
                                   FALSE).val]]

ClientInit ==
    /\ ClientIdle
    /\ registry = MODEL_REGISTRY
    /\ heap = <<>>
    /\ calls = <<>>
    /\ pending = <<>>
    /\ looked = ""
    /\ py311 = TRUE
    /\ pc = "client"
    /\ cls = ""
    /\ data = None
    /\ result = NoResult
    /\ again = NoResult
    /\ response_data = <<>>
    /\ ri = 0
    /\ model_class = ""
    /\ data_entries = <<>>
    /\ di = 0
    /\ parsed_objects = <<>>
    /\ exc = ""

clientRest ==
    <<registry, concVars, regVars, py311, pc, decodeVars, parseVars>>

\* the httpx.AsyncClient of line 101
AsyncClient == [None EXCEPT !.k = "AsyncClient"]

\* what an operation gave: the URLs of the requests it sent and the
\* responses to them
Exchange(op, raised, value, requests, responses) ==
    [op |-> op, exc |-> raised, value |-> value,
     urls |-> [i \in 1..Len(requests) |-> requests[i].url],
     responses |-> SubSeq(responses, 1, Len(requests))]

\* __aenter__, lines 99-105
AEnter ==
    /\ _client' = AsyncClient
    /\ UNCHANGED <<session_id, sent, outcome, clientRest>>

\* a call of _request (lines 117-243) by any method of the client
Request ==
    /\ Len(sent) < MaxRequests
    /\ \E response \in Responses :
          LET r == _request(_client, session_id, "api/test", response)
          IN  /\ session_id' = r.session_id
              /\ sent' = sent \o r.sent
              /\ outcome' = Exchange("_request", r.exc, r.data, r.sent,
                                     <<response>>)
    /\ UNCHANGED <<_client, clientRest>>

\* the fields of the dataclass UserInfo, models.py lines 1795-2032
UserInfoFields ==
    { "authentication_state", "user_id", "opener", "firstname", "lastname",
      "role", "debug", "driver_load", "driver_serve", "driver_next",
      "driver_next_load", "driver_tracking", "pref_asdc", "email", "email1",
      "phone", "phone_mobile", "country", "zip", "city", "street",
      "account_number", "paycode", "note", "placecode", "sepa_info",
      "delivery_name", "delivery_zip", "delivery_city", "delivery_street",
      "company", "no_ad", "place_note", "pref_abocart", "pref_partial",
      "department", "vat_id", "delivery_company", "delivery_department",
      "driver_note", "balance", "traceme", "trivial_warning", "order_limit",
      "needs_tc", "bic", "active", "boxcnt", "rgroup_until",
      "notification_order", "notification_cart", "notification_delivery",
      "notification_order_change", "notification_reminder",
      "notification_profile", "notification_newsletter",
      "notification_refund", "norefund", "has_orders" }

\* logon, lines 302-323: what the try block gives for the data _request
\* returned
logon_user_info(json) ==
    LET is_logon == json.kind = "dict" /\ "action" \in json.keys
        ok == "result" \in json.keys /\ json.result = "ok"
        init == dataclass_init(UserInfoFields,
                    IF is_logon
                    THEN {"id", "username", "email", "is_active",
                          "pcgif_version", "shop_version"}
                    ELSE {"id", "username", "email", "is_active"})
    IN  IF is_logon /\ ~ok
        THEN OekoboxAuthenticationError(
                 <<"Login failed: ">>
                    \o (IF "result" \in json.keys THEN Tok(json.result)
                        ELSE <<"unknown_error">>),
                 None, None)
        ELSE IF init # "" THEN BuiltinError(init)
        ELSE NoExc

\* logon, lines 291-328: an OekoboxAuthenticationError is re-raised, any
\* other exception becomes an OekoboxConnectionError
Logon ==
    /\ Len(sent) < MaxRequests
    /\ \E response \in Responses :
          LET r == _request(_client, session_id, "api/logon", response)
              tried == IF r.exc # NoExc THEN r.exc ELSE logon_user_info(r.data)
              raised ==
                  IF tried = NoExc \/ tried.cls = "OekoboxAuthenticationError"
                  THEN tried
                  ELSE OekoboxConnectionError(
                           <<"Failed to authenticate: ">> \o tried.message)
          IN  /\ session_id' = r.session_id
              /\ sent' = sent \o r.sent
              /\ outcome' = Exchange("logon", raised,
                                     IF raised = NoExc THEN PyStr(<<"UserInfo">>)
                                     ELSE None,
                                     r.sent, <<response>>)
    /\ UNCHANGED <<_client, clientRest>>

\* a variant that clears the session only when the logout request succeeds
Logout_KeepsOnFailure ==
    /\ Len(sent) < MaxRequests
    /\ py_bool(session_id)
    /\ \E response \in Responses :
          LET r == _request(_client, session_id, "api/logout", response)
          IN  /\ session_id' = IF r.exc = NoExc THEN None ELSE session_id
              /\ sent' = sent \o r.sent
              /\ outcome' = Exchange("logout", NoExc, None, r.sent,
                                     <<response>>)
    /\ UNCHANGED <<_client, clientRest>>

\* logout, lines 335-346, with a session held: the request, whatever it
\* gives, and then session_id = None
Logout ==
    /\ Len(sent) < MaxRequests
    /\ py_bool(session_id)
    /\ \E response \in Responses :
          LET r == _request(_client, session_id, "api/logout", response)
          IN  /\ session_id' = None
              /\ sent' = sent \o r.sent
              /\ outcome' = Exchange("logout", NoExc, None, r.sent,
                                     <<response>>)
    /\ UNCHANGED <<_client, clientRest>>

\* logout, line 337, with no session held: nothing is sent
LogoutNoSession ==
    /\ ~py_bool(session_id)
    /\ outcome' = Exchange("logout", NoExc, None, <<>>, <<>>)
    /\ UNCHANGED <<session_id, sent, _client, clientRest>>

\* get_delivery_dates, lines 502-544
GetDeliveryDates ==
    /\ Len(sent) < MaxRequests
    /\ \E first \in Responses :
          LET r1 == _request(_client, session_id, "api/dates1", first)
              retry == /\ r1.exc.cls = "OekoboxAPIError"
                       /\ r1.exc.status_code = PyInt(404)
          IN
          \E second \in IF retry THEN Responses ELSE {first} :
          LET r2 == _request(_client, r1.session_id, "dates1", second)
              r == IF retry THEN r2 ELSE r1
              requests == IF retry THEN r1.sent \o r2.sent ELSE r1.sent
              parsed == parse_dates(r.data)
          IN  /\ session_id' = r.session_id
              /\ sent' = sent \o requests
              /\ outcome' =
                    Exchange("get_delivery_dates",
                             IF r.exc # NoExc THEN r.exc ELSE parsed.exc,
                             IF r.exc # NoExc THEN <<>> ELSE parsed.dates,
                             requests, <<first, second>>)
    /\ UNCHANGED <<_client, clientRest>>

\* the arguments of the operations that take an id
order_id == <<"42">>
item_id == <<"7">>

\* the fields of the dataclasses Order, CartItem and Item, models.py
OrderFields ==
    { "id", "ddate", "state", "tour_id", "cnote", "rnote", "osh",
      "last_changed", "paid", "delivery_cost", "has_alcohol", "adrid", "cid",
      "shipcode", "used_paycode", "invnum", "invtotal" }

CartItemFields == { "item_id", "amount", "unit", "note" }

ItemFields ==
    { "id", "name", "price", "unit", "description", "category_id", "vat",
      "flag", "refund", "item_type", "hidden", "ref_price", "has_tn_url",
      "has_info", "can_be_preordered", "oi", "b_start", "b_ende", "b_von",
      "b_bis", "weighted", "order_stop_new", "pointer", "special_offer",
      "search", "reference_unit", "has_images", "packname", "association",
      "source", "regioflag", "amount_min", "amount_max", "amount_def",
      "amount_step", "image_count", "old_price", "labels", "has_related",
      "producer_id", "has_nutrition_info", "onsale", "cert", "protected",
      "unit_translated", "package", "eu_origin", "alcohol",
      "commercial_class", "season", "packstation", "weight", "rfactor",
      "max_discount", "unit_hint", "bulk_price", "bulk_amount",
      "bulk_ref_price", "noabo", "active_a", "brand", "references",
      "producer_name", "sale_type", "brand_name" }

\* float(x) if x else ..., as an argument: the exception it raises, or ""
float_if(x) == IF py_bool(x) THEN py_float(x).exc ELSE ""

\* the first of the exceptions that is one
first_exc(excs) ==
    LET hits == {i \in 1..Len(excs) : excs[i] # ""}
    IN  IF hits = {} THEN ""
        ELSE excs[CHOOSE i \in hits : \A j \in hits : i <= j]

\* get_order, lines 936-965: what the data gives, an Order or an exception
order_of(json) ==
    LET init == IF json.kind = "list"
                THEN dataclass_init(OrderFields,
                         {"id", "customer_id", "delivery_date", "status",
                          "total"})
                ELSE dataclass_init(OrderFields, json.keys)
    IN  IF /\ json.kind = "list"
           /\ ~(json.rows # <<>> /\ Len(json.rows[1].items) >= 2)
        THEN OekoboxValidationError(<<"Order not found in response: ">>
                                        \o order_id)
        ELSE IF init # "" THEN BuiltinError(init)
        ELSE NoExc

\* get_order, lines 924-965
GetOrder ==
    /\ Len(sent) < MaxRequests
    /\ \E response \in Responses :
          LET r == _request(_client, session_id, "api/order2/42", response)
              raised ==
                  IF /\ r.exc.cls = "OekoboxAPIError"
                     /\ r.exc.status_code = PyInt(404)
                  THEN OekoboxValidationError(<<"Order not found: ">>
                                                  \o order_id)
                  ELSE IF r.exc # NoExc THEN r.exc
                  ELSE order_of(r.data)
          IN  /\ session_id' = r.session_id
              /\ sent' = sent \o r.sent
              /\ outcome' = Exchange("get_order", raised,
                                     IF raised = NoExc THEN PyStr(<<"Order">>)
                                     ELSE None,
                                     r.sent, <<response>>)
    /\ UNCHANGED <<_client, clientRest>>

\* clear_cart, lines 806-819
ClearCart ==
    /\ Len(sent) < MaxRequests
    /\ \E response \in Responses :
          LET r == _request(_client, session_id, "api/client/resetcart",
                            response)
              raised ==
                  IF /\ r.exc.cls = "OekoboxAPIError"
                     /\ str_contains(<<"API error:">>, r.exc.message)
                     /\ r.exc.status_code = PyInt(200)
                  THEN NoExc
                  ELSE r.exc
          IN  /\ session_id' = r.session_id
              /\ sent' = sent \o r.sent
              /\ outcome' = Exchange("clear_cart", raised, None, r.sent,
                                     <<response>>)
    /\ UNCHANGED <<_client, clientRest>>

\* add_to_cart, lines 735-752: the row becomes a CartItem
is_cart_row(cart_row) ==
    Len(cart_row.items) >= 4 /\ ~py_eq_int(cart_row.items[1], 0)

\* add_to_cart, lines 728-755: the exception the rows give, or none and
\* the cart items
cart_of(json) ==
    LET good == IF json.kind = "list"
                THEN SelectSeq(json.rows, is_cart_row) ELSE <<>>
        raised ==
            IF good = <<>> THEN ""
            ELSE first_exc(<<float_if(good[1].items[2]),
                             float_if(good[1].items[4]),
                             dataclass_init(CartItemFields,
                                 {"item_id", "quantity", "unit_price",
                                  "total_price"})>>)
    IN  IF raised # "" THEN BuiltinError(raised) ELSE NoExc

\* add_to_cart, lines 692-755
AddToCart ==
    /\ Len(sent) < MaxRequests
    /\ \E response \in Responses :
          LET r == _request(_client, session_id, "api/cart/add", response)
              raised ==
                  IF /\ r.exc.cls = "OekoboxAPIError"
                     /\ str_contains(<<"no_ddate">>, r.exc.message)
                  THEN OekoboxValidationError(
                           <<"A delivery date must be selected before adding items to cart.">>)
                  ELSE IF r.exc # NoExc THEN r.exc
                  ELSE cart_of(r.data)
          IN  /\ session_id' = r.session_id
              /\ sent' = sent \o r.sent
              /\ outcome' = Exchange("add_to_cart", raised,
                                     IF raised = NoExc THEN PyList(<<>>)
                                     ELSE None,
                                     r.sent, <<response>>)
    /\ UNCHANGED <<_client, clientRest>>

\* get_item, lines 825-829
urls_to_try == <<"api/item/7", "item/7", "api/items1/-1">>

\* the answers drawn for get_item
ItemResponses ==
    { Http(404, NoCookies, NotJson),
      Http(500, NoCookies, JsonObject({})),
      Http(200, NoCookies, JsonList(<<OtherRow, ItemRow, Term0>>)),
      Http(200, NoCookies, JsonList(<<Term0>>)),
      Http(200, Cookie("JSESSIONID", "xyz789"), JsonObject({"id"})) }

\* get_item, line 841: the row is the one asked for
is_item_row(item_row) ==
    Len(item_row.items) >= 4 /\ py_str(item_row.items[1]) = item_id

\* get_item, lines 836-857: what the data of one candidate gives: an
\* exception, the item (found), or neither, and the next candidate is tried
item_of(json) ==
    LET good == IF json.kind = "list"
                THEN SelectSeq(json.rows, is_item_row) ELSE <<>>
        raised ==
            IF json.kind = "list"
            THEN IF good = <<>> THEN ""
                 ELSE first_exc(<<float_if(good[1].items[3]),
                                  dataclass_init(ItemFields,
                                      {"id", "name", "price", "description",
                                       "group_id", "unit"})>>)
            ELSE dataclass_init(ItemFields, json.keys)
    IN  [exc |-> IF raised # "" THEN BuiltinError(raised) ELSE NoExc,
         found |-> raised = "" /\ (json.kind = "dict" \/ good # <<>>)]

\* get_items, line 474: the row becomes an Item
is_items_row(item_row) ==
    Len(item_row.items) >= 4 /\ ~py_eq_int(item_row.items[1], 0)

\* get_items, lines 465-499, for the data _request returned: the exception
\* raised or the ids of the items returned.  No body drawn is an object
\* with an "items" key
get_items(json) ==
    LET good == IF json.kind = "list"
                THEN SelectSeq(json.rows, is_items_row) ELSE <<>>
        raised ==
            IF good = <<>> THEN ""
            ELSE first_exc(<<float_if(good[1].items[3]),
                             dataclass_init(ItemFields,
                                 {"id", "name", "price", "description",
                                  "group_id"})>>)
    IN  [exc |-> IF raised # "" THEN BuiltinError(raised) ELSE NoExc,
         ids |-> IF raised # "" THEN <<>>
                 ELSE [k \in 1..Len(good) |-> py_str(good[k].items[1])]]

\* get_item, lines 831-875, from candidate i on: the runs it can take, one
\* for each choice of answers.  A run is the session id after it, the
\* requests sent, the responses received and the exception raised (NoExc
\* when the Item is returned)
RECURSIVE get_item_runs(_, _, _, _, _)
get_item_runs(client, sid, i, requests, responses) ==
    IF i > Len(urls_to_try)
    THEN { LET r == _request(client, sid, "api/items1/-1", response)
               got == IF r.exc = NoExc THEN get_items(r.data)
                      ELSE [exc |-> r.exc, ids |-> <<>>]
               found == /\ got.exc = NoExc
                        /\ \E k \in 1..Len(got.ids) : got.ids[k] = item_id
           IN  [session_id |-> r.session_id,
                sent |-> requests \o r.sent,
                responses |-> Append(responses, response),
                exc |-> IF found THEN NoExc
                        ELSE OekoboxValidationError(
                                 <<"Item not found: ">> \o item_id)]
           : response \in ItemResponses }
    ELSE UNION {
           LET r == _request(client, sid, urls_to_try[i], response)
               got == item_of(r.data)
               next ==
                   IF r.exc # NoExc
                   THEN /\ r.exc.cls = "OekoboxAPIError"
                        /\ r.exc.status_code = PyInt(404)
                   ELSE got.exc = NoExc /\ ~got.found
           IN  IF next
               THEN get_item_runs(client, r.session_id, i + 1,
                                  requests \o r.sent,
                                  Append(responses, response))
               ELSE {[session_id |-> r.session_id,
                      sent |-> requests \o r.sent,
                      responses |-> Append(responses, response),
                      exc |-> IF r.exc # NoExc THEN r.exc ELSE got.exc]}
           : response \in ItemResponses }

\* get_item, lines 822-875
GetItem ==
    /\ Len(sent) < MaxRequests
    /\ \E run \in get_item_runs(_client, session_id, 1, <<>>, <<>>) :
          /\ session_id' = run.session_id
          /\ sent' = sent \o run.sent
          /\ outcome' = Exchange("get_item", run.exc,
                                 IF run.exc = NoExc THEN PyStr(<<"Item">>)
                                 ELSE None,
                                 run.sent, run.responses)
    /\ UNCHANGED <<_client, clientRest>>

ClientNext ==
    \/ AEnter
    \/ Request
    \/ Logon
    \/ Logout
    \/ LogoutNoSession
    \/ GetOrder
    \/ ClearCart
    \/ AddToCart
    \/ GetItem
    \/ GetDeliveryDates

ClientSpec == ClientInit /\ [][ClientNext]_vars

(***************************************************************************)
(* parse_data_list_response run alone, as a function of its envelope: the  *)
(* exception that leaves it, or the objects of the list it returns.        *)
(***************************************************************************)
RECURSIVE batch_alone(_, _, _)
batch_alone(c, entries, acc) ==
    IF entries = <<>> THEN [exc |-> "", objs |-> acc]
    ELSE LET r == from_data_list_entry(c, Head(entries), TRUE)
         IN  IF is_terminator(Head(entries)) \/ r.exc \in Caught
             THEN batch_alone(c, Tail(entries), acc)
             ELSE IF r.exc # "" THEN [exc |-> r.exc, objs |-> <<>>]
             ELSE batch_alone(c, Tail(entries), Append(acc, r.obj))

RECURSIVE parse_alone(_, _)
parse_alone(envelope, acc) ==
    IF envelope = <<>> THEN [exc |-> "", objs |-> acc]
    ELSE LET response_item == Head(envelope)
             found == registry_get(response_item.type)
             it == py_iter(get_data(response_item))
             b == batch_alone(found.cls, it.seq, acc)
         IN  IF ~HasType(response_item) THEN parse_alone(Tail(envelope), acc)
             ELSE IF found.exc # "" THEN [exc |-> found.exc, objs |-> <<>>]
             ELSE IF found.cls = "" THEN parse_alone(Tail(envelope), acc)
             ELSE IF it.exc # "" THEN [exc |-> it.exc, objs |-> <<>>]
             ELSE IF b.exc # "" THEN b
             ELSE parse_alone(Tail(envelope), b.objs)

(***************************************************************************)
(* Properties.                                                             *)
(***************************************************************************)
NFields(c) == Len(dataclass_fields(c))

\* a call of from_data_list_entry on a raw array has ended
CalledOnList == pc \in {"returned", "raised"} /\ data.k = "list"

ReturnedOnList == pc = "returned" /\ data.k = "list"

\* the positions that both the raw array and the schema have
Shared == 1..Min(Len(data.items), NFields(cls))

Present(v) == v # None /\ v # PyStr(<<>>)

\* v cannot be converted to the type that field f declares
Uncoercible(f, v) ==
    \/ f.base = "int" /\ py_int(v).exc # ""
    \/ f.base = "float" /\ py_float(v).exc # ""
    \/ f.base = "datetime.datetime" /\ py_fromisoformat(v, py311).exc # ""
    \/ f.base = "datetime.date" /\ py_strptime(v).exc # ""

\* the raw array with position i set to null
Without(i) == PyList([data.items EXCEPT ![i] = None])

\* C1: in from_data_list_entry, a present value that cannot be coerced to
\* the declared type of its field, in any class, makes that one field
\* null: the call does not raise, and every other field has the value it
\* has with that position null.
C1_UncoercibleValueNullsOnlyItsField ==
    CalledOnList =>
        \A i \in Shared :
            (/\ Present(data.items[i])
             /\ Uncoercible(dataclass_fields(cls)[i], data.items[i]))
            => /\ result.exc = ""
               /\ result.obj.kwargs[i] = None
               /\ \A j \in (1..NFields(cls)) \ {i} :
                      result.obj.kwargs[j]
                        = from_data_list_entry(cls, Without(i), py311).obj.kwargs[j]

\* a terminator of the wire format: a one-element array holding 0 or -1
SpecTerminator(r) ==
    r.k = "list" /\ Len(r.items) = 1 /\ r.items[1] \in {PyInt(0), PyInt(-1)}

\* the inner loop passes over the entry it is at: nothing is appended,
\* nothing is raised
PassesOver ==
    parsed_objects' = parsed_objects /\ di' = di + 1 /\ pc' = "batch" /\ exc' = ""

\* C2: under every registered tag, parse_data_list_response passes over
\* each raw entry that is a one-element array holding 0 or holding -1: the
\* entry is not decoded and adds no object to the output.
C2_BothTerminatorFormsSkipped ==
    [][(AtEntry /\ SpecTerminator(data_entries[di])) => PassesOver]_vars

\* C3: within a batch, a raw entry that is no array is skipped alone:
\* nothing is appended for it, nothing is raised, the loop goes on with
\* the next entry.
C3_NonArrayEntrySkippedAlone ==
    [][(/\ AtEntry
        /\ get_data(response_data[ri]).k = "list"
        /\ data_entries[di].k # "list") => PassesOver]_vars

\* an envelope entry that is malformed: no object, no "type", or a "data"
\* that is missing, null, no list, or empty
EnvelopeMalformed(response_item) ==
    \/ ~HasType(response_item)
    \/ ~response_item.hasData
    \/ response_item.data.k # "list"
    \/ response_item.data.items = <<>>

\* C4: parse_data_list_response never raises on an envelope entry that is
\* no object, lacks a type, or whose data is missing, empty, null or no
\* list: the entry adds no record (the loop goes to the next entry, or
\* walks an empty batch) and the entries after it are still processed.
C4_MalformedEnvelopeEntryAbsorbed ==
    [][(AtItem /\ EnvelopeMalformed(response_data[ri]))
        => /\ parsed_objects' = parsed_objects
           /\ exc' = ""
           /\ \/ pc' = "loop" /\ ri' = ri + 1
              \/ pc' = "batch" /\ data_entries' = <<>>]_vars

DeclaredDefault(f) == IF f.default = MISSING THEN None ELSE f.default

\* C5: for every class and every raw array no longer than its schema, the
\* empty one included, from_data_list_entry does not raise and every field
\* past the end of the array has its declared default, or null when it
\* declares none; Group [2, "Vegetables"] gives id 2, name "Vegetables",
\* infotext null, count null.
C5_ShortArrayTakesDefaults ==
    (CalledOnList /\ Len(data.items) <= NFields(cls))
    => /\ result.exc = ""
       /\ \A i \in (Len(data.items) + 1)..NFields(cls) :
              result.obj.kwargs[i] = DeclaredDefault(dataclass_fields(cls)[i])
       /\ (cls = "Group" /\ data = ScenarioB)
              => SubSeq(result.obj.kwargs, 1, 4)
                   = <<PyInt(2), PyStr(Vegetables), None, None>>

\* C6: for every class and every raw array longer than its schema,
\* from_data_list_entry does not raise and returns the object it returns
\* for the array cut to the schema's length.
C6_SurplusValuesIgnored ==
    (CalledOnList /\ Len(data.items) > NFields(cls))
    => /\ result.exc = ""
       /\ result = from_data_list_entry(
                       cls, PyList(SubSeq(data.items, 1, NFields(cls))), py311)

\* a type tag that the registry can look up and does not hold
Unregistered(object_type) ==
    object_type.k \notin {"list", "dict"} /\ ~RegisteredTag(object_type)

Accepted(r) == r.k = "list" /\ ~SpecTerminator(r)

\* one decoded object per accepted entry of rs, in order
RECURSIVE DecodedBatch(_, _)
DecodedBatch(c, rs) ==
    IF rs = <<>> THEN <<>>
    ELSE (IF Accepted(Head(rs))
          THEN <<from_data_list_entry(c, Head(rs), py311).obj>>
          ELSE <<>>) \o DecodedBatch(c, Tail(rs))

\* the batches of the registered tags, decoded, one after the other
RECURSIVE DecodedEnvelope(_)
DecodedEnvelope(env) ==
    IF env = <<>> THEN <<>>
    ELSE (IF /\ HasType(Head(env))
             /\ RegisteredTag(Head(env).type)
             /\ get_data(Head(env)).k = "list"
          THEN DecodedBatch(Head(env).type.s[1], get_data(Head(env)).items)
          ELSE <<>>) \o DecodedEnvelope(Tail(env))

\* C8: the output of parse_data_list_response is the concatenation, in
\* envelope order and then batch order, of exactly one decoded object per
\* accepted raw entry (registered tag, no terminator, an array): nothing
\* duplicated, dropped, interleaved or reordered.
C8_OutputIsConcatenationOfAccepted ==
    pc = "returned" => parsed_objects = DecodedEnvelope(response_data)

\* n nulls
RECURSIVE Nulls(_)
Nulls(n) == IF n = 0 THEN <<>> ELSE <<None>> \o Nulls(n - 1)

\* field i decoded from a raw array that holds v at position i and nulls
\* before it
SoleField(c, i, v) ==
    from_data_list_entry(c, PyList(Append(Nulls(i - 1), v)), py311).obj.kwargs[i]

\* C9: for every position i that the raw array and the schema both have,
\* field i of the result is the coercion of r[i] under field i's declared
\* type, whatever the other positions hold and however long the array is;
\* Group [1, "Fruits", "Fresh fruits", 25] gives id 1, name "Fruits",
\* infotext "Fresh fruits", count 25.
C9_FieldDependsOnItsPositionOnly ==
    ReturnedOnList
    => /\ \A i \in Shared :
              result.obj.kwargs[i] = SoleField(cls, i, data.items[i])
       /\ (cls = "Group" /\ data = ScenarioA)
              => SubSeq(result.obj.kwargs, 1, 4)
                   = <<PyInt(1), PyStr(Fruits), PyStr(FreshFruits), PyInt(25)>>

\* a full array of differing values was decoded by position
C9_Witness ==
    /\ pc = "returned"
    /\ cls = "Group"
    /\ data = ScenarioA
    /\ result.obj.kwargs[4] = PyInt(25)

\* C10: for a String field, a present non-null value decodes to its text,
\* and to null only when that text is empty; a numeric 0 or a boolean
\* false decodes to a text, not to null.
C10_StringFieldStringifies ==
    ReturnedOnList
    => \A i \in Shared :
          (dataclass_fields(cls)[i].base = "str" /\ data.items[i] # None)
          => result.obj.kwargs[i]
               = (IF py_str(data.items[i]) = <<>> THEN None
                  ELSE PyStr(py_str(data.items[i])))

\* C11: a present raw value that is null or the empty string decodes to
\* null for a field of any declared type, also when the field declares a
\* non-null default; the declared default is what the positions past the
\* end of the raw array get.
C11_PresentNullDecodesToNull ==
    ReturnedOnList
    => /\ \A i \in Shared :
              ~Present(data.items[i]) => result.obj.kwargs[i] = None
       /\ \A i \in (Len(data.items) + 1)..NFields(cls) :
              result.obj.kwargs[i] = DeclaredDefault(dataclass_fields(cls)[i])

\* a present null and a present empty text went to fields that declare the
\* defaults 0 and 0.0, and the field after them took its default
C11_Witness ==
    /\ pc = "returned"
    /\ cls = "Position"
    /\ data = PyList(<<None, PyStr(<<>>)>>)
    /\ dataclass_fields(cls)[1].default = PyInt(0)
    /\ dataclass_fields(cls)[2].default = PyFloat(0, 0)
    /\ SubSeq(result.obj.kwargs, 1, 3) = <<None, None, PyStr(<<>>)>>

NumericZero(v) == v.k \in {"int", "float"} /\ v.n = 0

NonZeroNumber(v) == (v.k \in {"int", "float"} /\ v.n # 0) \/ v.k = "inf"

\* C12: for a Bool field, a present numeric zero decodes to false, any
\* other number and any non-empty text, the text "0" included, decodes to
\* true, and no present non-empty value decodes to null.
C12_BoolTruthTable ==
    ReturnedOnList
    => \A i \in Shared :
          (dataclass_fields(cls)[i].base = "bool" /\ Present(data.items[i]))
          => /\ result.obj.kwargs[i] # None
             /\ NumericZero(data.items[i])
                    => result.obj.kwargs[i] = PyBool(FALSE)
             /\ (NonZeroNumber(data.items[i]) \/ data.items[i].k = "str")
                    => result.obj.kwargs[i] = PyBool(TRUE)

\* the text "0" reached AssortmentGroup.has_image and decoded to true
C12_Witness ==
    /\ pc = "returned"
    /\ cls = "AssortmentGroup"
    /\ Len(data.items) = 6
    /\ data.items[6] = PyStr(<<"0">>)
    /\ result.obj.kwargs[6] = PyBool(TRUE)

ChristmasZ ==
    PyStr(<<"2", "0", "2", "3", "-", "1", "2", "-", "2", "5", "T",
            "1", "0", ":", "0", "0", ":", "0", "0", "Z">>)

\* C13: the text "2023-12-25T10:00:00Z" in a DateTime field decodes to the
\* timestamp 2023-12-25T10:00:00+00:00, not to null; a value that is no
\* ISO-8601 text decodes to null.
C13_TrailingZIsUtc ==
    ReturnedOnList
    => \A i \in Shared :
          (/\ dataclass_fields(cls)[i].base = "datetime.datetime"
           /\ Present(data.items[i]))
          => /\ data.items[i] = ChristmasZ
                    => result.obj.kwargs[i]
                         = PyDateTime(<<2023, 12, 25, 10, 0, 0, 1, 0>>)
             /\ data.items[i] \in {PyStr(<<"a", "b", "c">>), PyInt(25)}
                    => result.obj.kwargs[i] = None

Outcome(t) ==
    IF calls[t].pc = "raised" THEN [exc |-> calls[t].exc, objs |-> <<>>]
    ELSE [exc |-> "", objs |-> heap[calls[t].parsed_objects]]

\* C15: concurrent calls of parse_data_list_response share no mutable
\* state: under every interleaving of two calls on different envelopes,
\* each call gives what it gives run alone, the two result lists are
\* different objects, and MODEL_REGISTRY is unchanged.
C15_ConcurrentCallsIndependent ==
    /\ registry = MODEL_REGISTRY
    /\ \A t \in DOMAIN calls :
          /\ calls[t].pc \in {"returned", "raised"}
                => Outcome(t) = parse_alone(calls[t].response_data, <<>>)
          /\ \A u \in DOMAIN calls \ {t} :
                (calls[t].pc # "idle" /\ calls[u].pc # "idle")
                => calls[t].parsed_objects # calls[u].parsed_objects

\* two interleaved calls both returned, each with an object of its own
C15_Witness ==
    /\ DOMAIN calls = Threads
    /\ calls[1].pc = "returned"
    /\ calls[2].pc = "returned"
    /\ Len(heap[calls[1].parsed_objects]) = 1
    /\ Len(heap[calls[2].parsed_objects]) = 2
    /\ heap[calls[1].parsed_objects][1].cls = "Group"
    /\ heap[calls[2].parsed_objects][2].cls = "Group"

\* C16: registering a type tag that the registry already holds is rejected
\* as a fatal error at registration time: the registry keeps the earlier
\* class and the startup ends there.
C16_DuplicateTagRejected ==
    [][(/\ pc = "startup"
        /\ pending # <<>>
        /\ Head(pending).tag \in DOMAIN registry)
        => (pc' = "fatal" /\ registry' = registry)]_vars

\* the dates that a dates1 response holds
DatesOf(json) ==
    LET good == IF json.kind = "list"
                THEN SelectSeq(json.rows, date_row_parses) ELSE <<>>
    IN  [i \in 1..Len(good) |->
            py_fromisoformat(PyStr(replace_Z(good[i].items[3].s)), FALSE).val]

\* C17: when <api_base_url>/dates1 answers HTTP 404, get_delivery_dates
\* retries once on <base_url>/dates1 and returns the dates parsed from
\* that second response; an API error with another status is propagated
\* without a retry.
C17_DatesFallbackOn404 ==
    (outcome.op = "get_delivery_dates" /\ outcome.responses # <<>>)
    => /\ (outcome.responses[1].transport /\ outcome.responses[1].status = 404)
            => /\ outcome.urls = <<"api/dates1", "dates1">>
               /\ Len(outcome.responses) = 2
               /\ (/\ outcome.responses[2].transport
                   /\ outcome.responses[2].status = 200
                   /\ outcome.responses[2].body.kind = "list")
                    => /\ outcome.exc = NoExc
                       /\ outcome.value = DatesOf(outcome.responses[2].body)
       /\ (/\ outcome.exc.cls = "OekoboxAPIError"
           /\ outcome.responses[1].status # 404)
            => outcome.urls = <<"api/dates1">>

\* C18: an OekoboxAPIError or OekoboxAuthenticationError that the client
\* builds with the HTTP code as second positional argument has status_code
\* equal to that code, and an OekoboxAPIError has response_data {}.
C18_StatusCodeIsTheCode ==
    (/\ outcome.op = "_request"
     /\ outcome.exc.cls \in {"OekoboxAPIError", "OekoboxAuthenticationError"})
    => /\ outcome.exc.status_code = PyInt(outcome.responses[1].status)
       /\ outcome.exc.cls = "OekoboxAPIError"
            => outcome.exc.response_data = PyDict(<<>>)

\* the session cookies that a response sets
SessionCookiesOf(response) ==
    {n \in {"JSESSIONID", "OOSESSION", "sessionid"} :
        n \in DOMAIN response.cookies /\ response.cookies[n] # Text("")}

C20_LogoutClearsSession ==
    outcome.op = "logout" => (session_id = None /\ outcome.exc = NoExc)

\* a logout whose request failed at the transport left no session
C20_Witness ==
    /\ outcome.op = "logout"
    /\ outcome.responses = <<TransportFailure>>
    /\ sent[Len(sent)] = [url |-> "api/logout", sid |-> Text("abc123")]
    /\ session_id = None

\* the response to the one request of the client's last operation
Answer == outcome.responses[1]

\* C21: _request maps an HTTP 401 or 403 response to
\* OekoboxAuthenticationError, every other HTTP error status to
\* OekoboxAPIError and a transport failure to OekoboxConnectionError, and
\* returns no data in any of these cases.
C21_HttpErrorsAndTransportFailuresRaise ==
    (outcome.op = "_request" /\ outcome.responses # <<>>)
    => /\ (Answer.transport /\ Answer.status \in {401, 403})
            => /\ outcome.exc.cls = "OekoboxAuthenticationError"
               /\ outcome.value = NotJson
       /\ (Answer.transport /\ Answer.status >= 400
                /\ Answer.status \notin {401, 403})
            => /\ outcome.exc.cls = "OekoboxAPIError"
               /\ outcome.value = NotJson
       /\ ~Answer.transport
            => /\ outcome.exc.cls = "OekoboxConnectionError"
               /\ outcome.value = NotJson

\* a request answered 403 has raised OekoboxAuthenticationError
C21_Witness ==
    /\ outcome.op = "_request"
    /\ outcome.responses # <<>>
    /\ Answer.status = 403
    /\ outcome.exc.cls = "OekoboxAuthenticationError"

\* the response is HTTP 200 with a JSON object that has a "result" key
ResultAnswer ==
    /\ outcome.responses # <<>>
    /\ Answer.transport
    /\ Answer.status = 200
    /\ Answer.body.json
    /\ Answer.body.kind = "dict"
    /\ "result" \in Answer.body.keys

\* C22: for a 200 JSON object whose result is present and not "ok",
\* _request raises OekoboxAuthenticationError for no_such_user,
\* wrong_password, blocked and duplicate_user, OekoboxValidationError for
\* empty and no_data, and OekoboxAPIError for any other value; it returns
\* the parsed data only when result is "ok" or absent; logon() with a wrong
\* password raises OekoboxAuthenticationError.
C22_ResultCodesMapToExceptions ==
    /\ (outcome.op = "_request" /\ ResultAnswer /\ Answer.body.result # "ok")
        => /\ outcome.value = NotJson
           /\ outcome.exc.cls =
                 IF Answer.body.result \in {"no_such_user", "wrong_password",
                                            "blocked", "duplicate_user"}
                 THEN "OekoboxAuthenticationError"
                 ELSE IF Answer.body.result \in {"empty", "no_data"}
                 THEN "OekoboxValidationError"
                 ELSE "OekoboxAPIError"
    /\ (/\ outcome.op = "_request"
        /\ outcome.responses # <<>>
        /\ Answer.transport /\ Answer.status = 200 /\ Answer.body.json
        /\ Answer.body.kind = "dict")
        => (outcome.exc = NoExc /\ outcome.value = Answer.body)
            <=> ("result" \notin Answer.body.keys \/ Answer.body.result = "ok")
    /\ (outcome.op = "logon" /\ ResultAnswer
            /\ Answer.body.result = "wrong_password")
        => outcome.exc.cls = "OekoboxAuthenticationError"

\* logon() was answered "wrong_password" and has raised
C22_Witness ==
    /\ outcome.op = "logon"
    /\ ResultAnswer
    /\ Answer.body.result = "wrong_password"
    /\ outcome.exc.cls = "OekoboxAuthenticationError"

\* C23: get_order raises OekoboxValidationError "Order not found:
\* <order_id>" when the order2 endpoint answers HTTP 404, and no other
\* exception type reaches the caller in that case.
C23_OrderNotFoundOn404 ==
    (/\ outcome.op = "get_order"
     /\ outcome.responses # <<>>
     /\ Answer.transport
     /\ Answer.status = 404)
    => outcome.exc = OekoboxValidationError(<<"Order not found: ">> \o order_id)

\* C24: clear_cart completes without raising when the resetcart endpoint
\* answers HTTP 200 with result "ok" and also when it answers HTTP 200
\* with an empty result string.
C24_ClearCartAcceptsEmptyResult ==
    (/\ outcome.op = "clear_cart"
     /\ ResultAnswer
     /\ Answer.body.result \in {"ok", ""})
    => outcome.exc = NoExc

\* the exception _request raises for the response, NoExc if it returns
RaisedFor(response) == request(None, "", response).exc

\* C25: add_to_cart raises OekoboxValidationError when the cart/add
\* endpoint answers with result "no_ddate" and returns no cart items then;
\* any other API error is re-raised unchanged.
C25_NoDdateBecomesValidationError ==
    (outcome.op = "add_to_cart" /\ outcome.responses # <<>>)
    => /\ (ResultAnswer /\ Answer.body.result = "no_ddate")
            => /\ outcome.exc.cls = "OekoboxValidationError"
               /\ outcome.value = None
       /\ (/\ RaisedFor(Answer).cls = "OekoboxAPIError"
           /\ ~(ResultAnswer /\ Answer.body.result = "no_ddate"))
            => outcome.exc = RaisedFor(Answer)

\* C26: _request called on a client that was never opened raises
\* OekoboxConnectionError "Client not initialized", sends no HTTP request
\* and leaves session_id unchanged.
C26_UnopenedClientSendsNothing ==
    [][(_client = None /\ _client' = None /\ outcome'.op = "_request")
        => /\ outcome'.exc = OekoboxConnectionError(
                  <<"Client not initialized. Use async context manager.">>)
           /\ outcome'.urls = <<>>
           /\ sent' = sent
           /\ session_id' = session_id]_vars

\* _request has raised on a client that is not open, nothing was sent
C26_Witness ==
    /\ _client = None
    /\ outcome.op = "_request"
    /\ outcome.exc.cls = "OekoboxConnectionError"
    /\ sent = <<>>

\* C28: once session_id is non-null, no response processed by _request
\* changes it, whatever session cookies the response carries; it returns
\* to null only through logout().
C28_FirstSessionIdWins ==
    [][session_id # None
        => \/ session_id' = session_id
           \/ (session_id' = None /\ outcome'.op = "logout")]_vars

\* a session id is held after a request whose response set a session
\* cookie to another value
C28_Witness ==
    /\ outcome.op = "_request"
    /\ outcome.responses # <<>>
    /\ session_id = Text("abc123")
    /\ Answer.transport
    /\ "JSESSIONID" \in DOMAIN Answer.cookies
    /\ Answer.cookies["JSESSIONID"] = Text("xyz789")

\* C27: get_item tries its candidate endpoints in order (<api>/item/<id>,
\* <base>/item/<id>, <api>/items1/-1): an HTTP 404 from one candidate moves
\* on to the next, any other API error aborts immediately, and
\* OekoboxValidationError "Item not found" is raised only after every
\* candidate and the get_items fallback have failed to yield the item.
C27_ItemCandidatesTriedInOrder ==
    (outcome.op = "get_item" /\ outcome.responses # <<>>)
    => LET n == Len(outcome.urls)
           tried == 1..Min(n, Len(urls_to_try))
       IN  /\ outcome.urls
                = SubSeq(urls_to_try \o <<"api/items1/-1">>, 1, n)
           /\ \A i \in tried :
                 /\ (/\ outcome.responses[i].transport
                     /\ outcome.responses[i].status = 404) => n > i
                 /\ (/\ RaisedFor(outcome.responses[i]).cls = "OekoboxAPIError"
                     /\ outcome.responses[i].status # 404)
                      => /\ n = i
                         /\ outcome.exc = RaisedFor(outcome.responses[i])
           /\ outcome.exc
                = OekoboxValidationError(<<"Item not found: ">> \o item_id)
                => n = Len(urls_to_try) + 1

\* the type hint of field f is a bare type, not a union
Bare(f) == ~f.optional

RawEntries(response_item) ==
    IF /\ HasType(response_item)
       /\ RegisteredTag(response_item.type)
       /\ py_iter(get_data(response_item)).exc = ""
    THEN Len(py_iter(get_data(response_item)).seq)
    ELSE 0

RECURSIVE TotalRawEntries(_)
TotalRawEntries(env) ==
    IF env = <<>> THEN 0
    ELSE RawEntries(Head(env)) + TotalRawEntries(Tail(env))

=============================================================================
